---- MODULE Spec2Model ----
(***************************************************************************)
(* A model of the channel analysis engine of backend/analyzer.py:          *)
(* ChannelAnalyzer (velocity, population statistics, scoring,              *)
(* classification, trend split, size-gated stages) and CompetitorAnalyzer  *)
(* (summary extraction, gap analysis, market position, insights).          *)
(*                                                                         *)
(* Number representation.  Python floats are modelled in fixed point:      *)
(*   view_velocity                     tenths        (round(x, 1))         *)
(*   engagement_rate/like_ratio/...    thousandths   (round(x, 3))         *)
(*   sub-scores of the breakdown       hundredths                          *)
(*   algorithm_score ('total')         tenths        (round(x, 1))         *)
(* Comparisons against thresholds are done exactly on the rationals.       *)
(* A z-score (x - mean)/stdev is invariant under scaling of the            *)
(* population, so populations are divided by their gcd before squaring.    *)
(***************************************************************************)
EXTENDS Integers, Sequences, FiniteSets, TLC

VARIABLES
    videos,              \* self.videos: the list of video dicts (mutated in place)
    classified_videos,   \* self.classified_videos: list of references (video_id)
    metrics_stats,       \* self.metrics_stats
    trend_data,          \* self.trend_data
    algorithm_insights,  \* self.algorithm_insights
    channel,             \* self.channel
    result,              \* what the last analyze() returned
    raised,              \* the exception the last analyze() propagated ("" = none)
    main,                \* CompetitorAnalyzer.main
    competitors,         \* CompetitorAnalyzer.competitors
    comparison,          \* what CompetitorAnalyzer.analyze() returned
    cmp_raised,          \* the exception CompetitorAnalyzer.analyze() propagated
    call,                \* a method called on its own: its name and argument
    ret,                 \* what that call returned
    staged,              \* analyzers whose analyze() calls advance stage by stage
    fetch                \* the frame of a running get_channel_videos()

vars == <<videos, classified_videos, metrics_stats, trend_data,
          algorithm_insights, channel, result, raised, main, competitors,
          comparison, cmp_raised, call, ret, staged, fetch>>

analyzerVars == <<videos, classified_videos, metrics_stats, trend_data,
                  algorithm_insights, channel, result, raised>>

comparatorVars == <<main, competitors, comparison, cmp_raised>>

callVars == <<call, ret>>

-----------------------------------------------------------------------------
(* Bounds of the model *)

MaxVideos == 4          \* longest list drawn from the full video pool
MaxTrendVideos == 11    \* longest list of the patterned populations
MaxCompetitors == 2     \* longest competitor list

(* Size thresholds of the stages *)

MinClassifyVideos == 3
MinTrendVideos == 10
MinGrowthVideos == 5
MinUploadVideos == 2
MinStatsVideos == 2

-----------------------------------------------------------------------------
(* Arithmetic helpers *)

Abs(x) == IF x < 0 THEN -x ELSE x

Min2(a, b) == IF a < b THEN a ELSE b

Max2(a, b) == IF a > b THEN a ELSE b

RECURSIVE SumSeq(_)
SumSeq(s) == IF s = <<>> THEN 0 ELSE Head(s) + SumSeq(Tail(s))

RECURSIVE GCD(_, _)
GCD(a, b) == IF b = 0 THEN a ELSE GCD(b, a % b)

RECURSIVE GCDSeq(_)
GCDSeq(s) == IF s = <<>> THEN 0 ELSE GCD(Abs(Head(s)), GCDSeq(Tail(s)))

\* Python round(): nearest, ties to even.  num/den with den > 0.
RoundHalfEven(num, den) ==
    LET q == num \div den
        r == num % den
    IN  IF 2 * r < den THEN q
        ELSE IF 2 * r > den THEN q + 1
        ELSE IF q % 2 = 0 THEN q ELSE q + 1

\* <<floor(10^digits * a / b), remainder>> by long division; a >= 0, b > 0.
RECURSIVE LongDiv(_, _, _, _)
LongDiv(q, r, b, digits) ==
    IF digits = 0 THEN <<q, r>>
    ELSE LongDiv(10 * q + (10 * r) \div b, (10 * r) % b, b, digits - 1)

ScaledDiv(a, b, digits) == LongDiv(a \div b, a % b, b, digits)

RECURSIVE IsqrtBetween(_, _, _)
IsqrtBetween(n, lo, hi) ==
    IF lo >= hi THEN lo
    ELSE LET mid == (lo + hi + 1) \div 2
         IN  IF mid * mid <= n THEN IsqrtBetween(n, mid, hi)
             ELSE IsqrtBetween(n, lo, mid - 1)

\* floor(sqrt(n)) for 0 <= n < 2^30
Isqrt(n) == IsqrtBetween(n, 0, Min2(n, 32767))

-----------------------------------------------------------------------------
(* statistics.mean / statistics.stdev over a population of integers *)

\* n*x - sum: the sign and size of (x - mean)
Deviation(xs, x) == Len(xs) * x - SumSeq(xs)

\* n*sum(x^2) - sum(x)^2 = n*(n-1)*variance
VarianceNum(xs) ==
    LET sq == [i \in 1..Len(xs) |-> xs[i] * xs[i]]
    IN  Len(xs) * SumSeq(sq) - SumSeq(xs) * SumSeq(xs)

\* statistics.stdev(values) if len(values) > 1 else 0, tested for > 0
StdevPositive(xs) == Len(xs) > 1 /\ VarianceNum(xs) > 0

\* floor(sqrt(c2 * 10^digits) * (x - mean)/stdev), for StdevPositive(xs)
ZTimes(xs, x, c2, digits) ==
    LET g  == GCDSeq(xs)
        ys == [i \in 1..Len(xs) |-> xs[i] \div g]
        y  == x \div g
        n  == Len(ys)
        d  == Deviation(ys, y)
        a  == c2 * d * d * (n - 1)
        b  == n * VarianceNum(ys)
        qr == ScaledDiv(a, b, digits)
        fl == Isqrt(qr[1])
        exact == qr[2] = 0 /\ fl * fl = qr[1]
    IN  IF d >= 0 THEN fl
        ELSE IF exact THEN -fl ELSE -(fl + 1)

\* z > p/q (q > 0), exactly, for StdevPositive(xs); z = 0 otherwise
ZGreater(xs, x, p, q) ==
    LET g  == GCDSeq(xs)
        ys == [i \in 1..Len(xs) |-> xs[i] \div g]
        y  == x \div g
        n  == Len(ys)
        d  == Deviation(ys, y)
        a  == d * d * (n - 1)
        b  == n * VarianceNum(ys)
    IN  IF ~StdevPositive(xs) THEN 0 > p
        ELSE IF p >= 0 THEN d > 0 /\ q * q * a > p * p * b
        ELSE d >= 0 \/ q * q * a < p * p * b

-----------------------------------------------------------------------------
(* Video records *)

Categories == {"curiosity", "numbers", "urgency", "value", "emotion", "question"}

Title(len, cats, emoji, bracket, runs) ==
    [length |-> len, cats |-> cats, emoji |-> emoji,
     bracket |-> bracket, special_runs |-> runs]

Iso(day) == [kind |-> "iso", day |-> day]
NoDate(kind) == [kind |-> kind, day |-> 0]

EmptyDict == [k \in {} |-> 0]

\* A video dict as the API client builds it: no derived key yet.
RawVideo(id, title, published, views, likes, comments, duration) ==
    [video_id |-> id, title |-> title, published_at |-> published,
     view_count |-> views, like_count |-> likes, comment_count |-> comments,
     duration |-> duration,
     keys |-> {}, view_velocity |-> 0, days_since_upload |-> 0,
     engagement_rate |-> 0, like_ratio |-> 0, comment_rate |-> 0,
     algorithm_score |-> 0, score_breakdown |-> EmptyDict, z_score |-> 0,
     classification |-> ""]

-----------------------------------------------------------------------------
(* Class-level tables of ChannelAnalyzer *)

\* SCORE_WEIGHTS, in hundredths
SCORE_WEIGHTS ==
    [view_velocity |-> 25, engagement_rate |-> 20, like_ratio |-> 15,
     comment_rate |-> 10, title_ctr_score |-> 15, duration_efficiency |-> 15]

WeightedMetrics == DOMAIN SCORE_WEIGHTS

\* YOUTUBE_BENCHMARKS, in hundredths of a percent
YOUTUBE_BENCHMARKS ==
    [like_ratio      |-> [excellent |-> 500, good |-> 300, average |-> 200, poor |-> 100],
     engagement_rate |-> [excellent |-> 800, good |-> 500, average |-> 300, poor |-> 150],
     comment_rate    |-> [excellent |-> 50,  good |-> 30,  average |-> 10,  poor |-> 5]]

\* the per-category bonus of _calculate_title_ctr_score
CategoryBonus ==
    [curiosity |-> 8, numbers |-> 7, urgency |-> 5, value |-> 6,
     emotion |-> 7, question |-> 5]

-----------------------------------------------------------------------------
(* Per-video metrics *)

\* a length rule that rewards every title of 15 to 60 characters
LengthAdjustmentFrom15(length) ==
    IF 30 <= length /\ length <= 50 THEN 10
    ELSE IF 15 <= length /\ length <= 60 THEN 5
    ELSE IF length < 15 THEN -10
    ELSE IF length > 70 THEN -5
    ELSE 0

LengthAdjustment(length) ==
    IF 30 <= length /\ length <= 50 THEN 10
    ELSE IF 20 <= length /\ length <= 60 THEN 5
    ELSE IF length < 15 THEN -10
    ELSE IF length > 70 THEN -5
    ELSE 0

RECURSIVE BonusSum(_)
BonusSum(cats) ==
    IF cats = {} THEN 0
    ELSE LET c == CHOOSE x \in cats : TRUE
         IN  CategoryBonus[c] + BonusSum(cats \ {c})

\* a score left as computed
Unclamped(x, hi) == x

ClampScore(x, hi) == Min2(hi, Max2(0, x))

\* a score with the bonuses of emoji and brackets exchanged
TitleRawScoreExchanged(title) ==
    50 + LengthAdjustment(title.length)
       + BonusSum(title.cats)
       + (IF title.emoji THEN 4 ELSE 0)
       + (IF title.bracket THEN 3 ELSE 0)
       - (IF title.special_runs > 2 THEN 5 ELSE 0)

\* the score _calculate_title_ctr_score accumulates before clamping it; the
\* title is given by the features the regular expressions extract from it
TitleRawScore(title) ==
    50 + LengthAdjustment(title.length)
       + BonusSum(title.cats)
       + (IF title.emoji THEN 3 ELSE 0)
       + (IF title.bracket THEN 4 ELSE 0)
       - (IF title.special_runs > 2 THEN 5 ELSE 0)

\* _calculate_title_ctr_score(title)['score']
TitleCtrScore(title) == ClampScore(TitleRawScore(title), 100)

\* Titles as strings: a title and a keyword are sequences of Unicode code
\* points; in a keyword pattern Digits stands for \d+, Spaces for \s* and
\* End for $ (digits and white space of the ASCII range)
Digits == -1
Spaces == -2
End == -3

\* CTR_BOOST_KEYWORDS
CTR_BOOST_KEYWORDS ==
    [curiosity |->
        {<<48708, 48128>>,
         <<52649, 44201>>,
         <<51652, 49892>>,
         <<50508, 47140, 46300>>,
         <<47792, 46992, 45912>>,
         <<49892, 51228, 47196>>,
         <<44208, 44397>>,
         <<46300, 46356, 50612>>},
     numbers |->
        {<<Digits, 44032, 51648>>,
         <<Digits, 44060>>,
         <<Digits, 37>>,
         <<Digits, 47564>>,
         <<84, 79, 80, Spaces, Digits>>,
         <<Digits, 50948>>},
     urgency |->
        {<<51648, 44552>>,
         <<48148, 47196>>,
         <<51593, 49884>>,
         <<50724, 45720>>,
         <<45817, 51109>>,
         <<54596, 49688>>},
     value |->
        {<<47924, 47308>>,
         <<44992, 54017>>,
         <<54645, 49900>>,
         <<50756, 48317>>,
         <<52572, 44256>>,
         <<52628, 52380>>,
         <<48169, 48277>>,
         <<48708, 48277>>},
     emotion |->
        {<<45824, 48149>>,
         <<48120, 52452>>,
         <<45440, 46972, 50868>>,
         <<52649, 44201>>,
         <<44048, 46041>>,
         <<50883, 44596>>,
         <<47112, 51204, 46300>>},
     question |->
        {<<63, End>>,
         <<50780>>,
         <<50612, 46523, 44172>>,
         <<47924, 50631>>,
         <<50616, 51228>>,
         <<50612, 46356, 49436>>}]

\* re.IGNORECASE on the letters A-Z
Fold(c) == IF 65 <= c /\ c <= 90 THEN c + 32 ELSE c

\* the pattern matches the title from position i on
RECURSIVE MatchAt(_, _, _)
MatchAt(pat, t, i) ==
    IF pat = <<>> THEN TRUE
    ELSE IF Head(pat) = Digits
    THEN /\ i <= Len(t)
         /\ 48 <= t[i] /\ t[i] <= 57
         /\ (MatchAt(Tail(pat), t, i + 1) \/ MatchAt(pat, t, i + 1))
    ELSE IF Head(pat) = Spaces
    THEN \/ MatchAt(Tail(pat), t, i)
         \/ /\ i <= Len(t)
            /\ t[i] \in {9, 10, 11, 12, 13, 32}
            /\ MatchAt(pat, t, i + 1)
    ELSE IF Head(pat) = End
    THEN i = Len(t) + 1 \/ (i = Len(t) /\ t[i] = 10)
    ELSE /\ i <= Len(t)
         /\ Fold(t[i]) = Fold(Head(pat))
         /\ MatchAt(Tail(pat), t, i + 1)

\* re.search(kw, title, re.IGNORECASE)
Search(pat, t) == \E i \in 1..(Len(t) + 1) : MatchAt(pat, t, i)

\* [!?]
Shouts(t, i) == i >= 1 /\ i <= Len(t) /\ t[i] \in {33, 63}

\* what _calculate_title_ctr_score reads off the title
TitleFeatures(t) ==
    Title(Len(t),
          {c \in Categories : \E kw \in CTR_BOOST_KEYWORDS[c] : Search(kw, t)},
          \E i \in 1..Len(t) : 127744 <= t[i] /\ t[i] <= 129535,
          \E i \in 1..Len(t) : t[i] \in {91, 93, 12304, 12305, 40, 41},
          Cardinality({i \in 1..Len(t) :
                          Shouts(t, i) /\ ~Shouts(t, i - 1) /\ Shouts(t, i + 1)}))

\* _duration_to_seconds: 'H:MM:SS' / 'M:SS' split at ':' ; '' gives 0
DurationToSeconds(parts) ==
    IF Len(parts) = 3 THEN parts[1] * 3600 + parts[2] * 60 + parts[3]
    ELSE IF Len(parts) = 2 THEN parts[1] * 60 + parts[2]
    ELSE 0

\* datetime.fromisoformat succeeds
Parseable(published) == published.kind = "iso"

\* `if published:` -- None and '' are falsy; a missing key reads as ''
Truthy(published) == published.kind \in {"iso", "bad"}

\* a loop body that records the days between the clock and published_at as
\* they are
WithVelocityRawDays(v, now) ==
    IF Truthy(v.published_at) /\ Parseable(v.published_at)
    THEN LET days == Max2(1, now - v.published_at.day)
         IN  [v EXCEPT !.view_velocity = RoundHalfEven(10 * v.view_count, days),
                       !.days_since_upload = now - v.published_at.day,
                       !.keys = @ \cup {"view_velocity", "days_since_upload"}]
    ELSE [v EXCEPT !.view_velocity = 10 * v.view_count,
                   !.days_since_upload = 1,
                   !.keys = @ \cup {"view_velocity", "days_since_upload"}]

\* the body of the loop of _calculate_view_velocity for one video
WithVelocity(v, now) ==
    IF Truthy(v.published_at) /\ Parseable(v.published_at)
    THEN LET days == Max2(1, now - v.published_at.day)
         IN  [v EXCEPT !.view_velocity = RoundHalfEven(10 * v.view_count, days),
                       !.days_since_upload = days,
                       !.keys = @ \cup {"view_velocity", "days_since_upload"}]
    ELSE [v EXCEPT !.view_velocity = 10 * v.view_count,
                   !.days_since_upload = 1,
                   !.keys = @ \cup {"view_velocity", "days_since_upload"}]

\* _calculate_view_velocity
CalculateViewVelocity(vs, now) ==
    [i \in 1..Len(vs) |-> WithVelocity(vs[i], now)]

-----------------------------------------------------------------------------
(* Population statistics *)

Velocities(vs) == [i \in 1..Len(vs) |-> vs[i].view_velocity]

Viewed(vs) == SelectSeq(vs, LAMBDA v : v.view_count > 0)

EngagementCount(v) == v.like_count + v.comment_count

\* the numerator of a rate
RateCount(v, metric) ==
    IF metric = "engagement_rate" THEN EngagementCount(v)
    ELSE IF metric = "like_ratio" THEN v.like_count
    ELSE v.comment_count

\* sum of count/views over a list of <<count, views>> pairs, as <<num, den>>
RECURSIVE RateSum(_)
RateSum(pairs) ==
    IF pairs = <<>> THEN <<0, 1>>
    ELSE LET rest == RateSum(Tail(pairs))
             p    == Head(pairs)
             num  == p[1] * rest[2] + rest[1] * p[2]
             den  == p[2] * rest[2]
             g    == GCD(num, den)
         IN  <<num \div g, den \div g>>

\* statistics.mean of the rates (in percent) of the videos with views > 0,
\* as <<num, den>>; needs such a video
RateMean(vs, metric) ==
    LET vw == Viewed(vs)
        s  == RateSum([i \in 1..Len(vw) |->
                          <<RateCount(vw[i], metric), vw[i].view_count>>])
    IN  <<100 * s[1], s[2] * Len(vw)>>

\* _calculate_metrics_stats: entries computed by this run replace the old
\* ones, the others stay
CalculateMetricsStats(vs, old) ==
    IF Len(vs) < MinStatsVideos THEN old
    ELSE LET base == [old EXCEPT
                 !.keys = @ \cup {"view_count", "like_count", "comment_count",
                                  "view_velocity"},
                 !.view_velocity = [values |-> Velocities(vs),
                                    total |-> SumSeq(Velocities(vs)),
                                    n |-> Len(vs)]]
         IN  IF Viewed(vs) = <<>> THEN base
             ELSE [base EXCEPT
                 !.keys = @ \cup {"engagement_rate", "like_ratio", "comment_rate"},
                 !.engagement_rate = RateMean(vs, "engagement_rate"),
                 !.like_ratio = RateMean(vs, "like_ratio"),
                 !.comment_rate = RateMean(vs, "comment_rate")]

EmptyStats ==
    [keys |-> {}, view_velocity |-> [values |-> <<>>, total |-> 0, n |-> 0],
     engagement_rate |-> <<0, 1>>, like_ratio |-> <<0, 1>>,
     comment_rate |-> <<0, 1>>]

\* metrics_stats.get(metric, {}).get('mean', 0) of a rate, as <<num, den>>
StatMean(stats, metric) ==
    IF metric \in stats.keys THEN stats[metric] ELSE <<0, 1>>

-----------------------------------------------------------------------------
(* Scoring *)

\* a bucket table whose boundaries are exclusive
BucketScoreAbove(count, views, bench) ==
    IF count * 10000 > bench.excellent * views THEN 95
    ELSE IF count * 10000 > bench.good * views THEN 75
    ELSE IF count * 10000 > bench.average * views THEN 55
    ELSE IF count * 10000 > bench.poor * views THEN 35
    ELSE 20

\* the five-step bucket table: first threshold the rate meets, inclusive
BucketScore(count, views, bench) ==
    IF count * 10000 >= bench.excellent * views THEN 95
    ELSE IF count * 10000 >= bench.good * views THEN 75
    ELSE IF count * 10000 >= bench.average * views THEN 55
    ELSE IF count * 10000 >= bench.poor * views THEN 35
    ELSE 20

\* round(count / views * 100, 3), in thousandths
RateRaw(count, views) == RoundHalfEven(count * 100000, views)

RECURSIVE LCMSeq(_)
LCMSeq(s) ==
    IF s = <<>> THEN 1
    ELSE LET r == LCMSeq(Tail(s)) IN (Head(s) \div GCD(Head(s), r)) * r

Timed(vs) ==
    SelectSeq(vs, LAMBDA v : DurationToSeconds(v.duration) > 0 /\ v.view_count > 0)

\* views per minute of one video on the common denominator of the population
VpmOn(v, l) == v.view_count * (l \div DurationToSeconds(v.duration))

\* _calculate_views_per_minute_stats: the population of views per minute
VpmValues(vs) ==
    LET tv == Timed(vs)
        l  == LCMSeq([i \in 1..Len(tv) |-> DurationToSeconds(tv[i].duration)])
    IN  [i \in 1..Len(tv) |-> VpmOn(tv[i], l)]

VpmScale(vs) ==
    LET tv == Timed(vs)
    IN  LCMSeq([i \in 1..Len(tv) |-> DurationToSeconds(tv[i].duration)])

\* a velocity sub-score that falls as the z-score rises
VelocitySubScoreFalling(v, stats) ==
    LET xs == IF "view_velocity" \in stats.keys
              THEN stats.view_velocity.values ELSE <<>>
    IN  IF StdevPositive(xs)
        THEN ClampScore(5000 - ZTimes(xs, v.view_velocity, 4, 6), 10000)
        ELSE 5000

\* scores['view_velocity'], in hundredths
VelocitySubScore(v, stats) ==
    LET xs == IF "view_velocity" \in stats.keys
              THEN stats.view_velocity.values ELSE <<>>
    IN  IF StdevPositive(xs)
        THEN ClampScore(5000 + ZTimes(xs, v.view_velocity, 4, 6), 10000)
        ELSE 5000

\* a duration sub-score with the slope of the velocity sub-score
DurationSubScoreBy20(v, vs) ==
    IF DurationToSeconds(v.duration) > 0 /\ v.view_count > 0
    THEN LET ys == VpmValues(vs)
         IN  IF StdevPositive(ys)
             THEN ClampScore(5000 + ZTimes(ys, VpmOn(v, VpmScale(vs)), 400, 4), 10000)
             ELSE 5000
    ELSE 5000

\* scores['duration_efficiency'], in hundredths
DurationSubScore(v, vs) ==
    IF DurationToSeconds(v.duration) > 0 /\ v.view_count > 0
    THEN LET ys == VpmValues(vs)
         IN  IF StdevPositive(ys)
             THEN ClampScore(5000 + ZTimes(ys, VpmOn(v, VpmScale(vs)), 225, 4), 10000)
             ELSE 5000
    ELSE 5000

\* a total that leaves out the entries missing from the dict
WeightedTotalOmitting(scores) ==
    LET term(m) == (IF m \in DOMAIN scores THEN scores[m] ELSE 0) * SCORE_WEIGHTS[m]
    IN  RoundHalfEven(term("view_velocity") + term("engagement_rate")
                      + term("like_ratio") + term("comment_rate")
                      + term("title_ctr_score") + term("duration_efficiency"), 1000)

\* total = round(sum(scores.get(metric, 50) * weight), 1), in tenths
WeightedTotal(scores) ==
    LET term(m) == (IF m \in DOMAIN scores THEN scores[m] ELSE 5000) * SCORE_WEIGHTS[m]
    IN  RoundHalfEven(term("view_velocity") + term("engagement_rate")
                      + term("like_ratio") + term("comment_rate")
                      + term("title_ctr_score") + term("duration_efficiency"), 1000)

\* the six weighted entries of the scores dict, in hundredths
SubScores(v, vs, stats) ==
    LET views == v.view_count
    IN  [view_velocity |-> VelocitySubScore(v, stats),
         engagement_rate |->
             IF views > 0
             THEN 100 * BucketScore(EngagementCount(v), views,
                                    YOUTUBE_BENCHMARKS.engagement_rate)
             ELSE 0,
         like_ratio |->
             IF views > 0
             THEN 100 * BucketScore(v.like_count, views,
                                    YOUTUBE_BENCHMARKS.like_ratio)
             ELSE 0,
         comment_rate |->
             IF views > 0
             THEN 100 * BucketScore(v.comment_count, views,
                                    YOUTUBE_BENCHMARKS.comment_rate)
             ELSE 0,
         title_ctr_score |-> 100 * TitleCtrScore(v.title),
         duration_efficiency |-> DurationSubScore(v, vs)]

\* the scores dict as returned: the weighted entries `sub`, the raw rates
\* and the total
ScoreBreakdown(v, sub) ==
    LET views == v.view_count
    IN  [view_velocity |-> sub.view_velocity,
         engagement_rate |-> sub.engagement_rate,
         like_ratio |-> sub.like_ratio,
         comment_rate |-> sub.comment_rate,
         title_ctr_score |-> sub.title_ctr_score,
         duration_efficiency |-> sub.duration_efficiency,
         engagement_rate_raw |-> IF views > 0 THEN RateRaw(EngagementCount(v), views) ELSE 0,
         like_ratio_raw |-> IF views > 0 THEN RateRaw(v.like_count, views) ELSE 0,
         comment_rate_raw |-> IF views > 0 THEN RateRaw(v.comment_count, views) ELSE 0,
         total |-> WeightedTotal(sub)]

\* _calculate_algorithm_score
CalculateAlgorithmScore(v, vs, stats) ==
    ScoreBreakdown(v, SubScores(v, vs, stats))

-----------------------------------------------------------------------------
(* Classification *)

Scores(vs) == [i \in 1..Len(vs) |-> vs[i].algorithm_score]

Ids(vs) == [i \in 1..Len(vs) |-> vs[i].video_id]

\* z >= p/q for p < 0 (q > 0); z = 0 when the stdev is 0
ZAtLeast(xs, x, p, q) ==
    LET g  == GCDSeq(xs)
        ys == [i \in 1..Len(xs) |-> xs[i] \div g]
        n  == Len(ys)
        d  == Deviation(ys, x \div g)
        a  == d * d * (n - 1)
        b  == n * VarianceNum(ys)
    IN  IF ~StdevPositive(xs) THEN TRUE
        ELSE d >= 0 \/ q * q * a <= p * p * b

\* round(z_score, 2), in hundredths
ZRounded(xs, x) ==
    IF StdevPositive(xs) THEN (ZTimes(xs, x, 4, 4) + 1) \div 2 ELSE 0

-----------------------------------------------------------------------------
(* IEEE-754 binary64 on non-negative values.  A natural number is a sequence
   of bits, least significant first; a double is [m, e] with value m * 2^e,
   m of MantissaBits bits with the top bit set, or ZeroDouble. *)
MantissaBits == 53
ZeroDouble == [m |-> <<>>, e |-> 0]

LimbBits == 12
Limb == 2 ^ LimbBits

RECURSIVE BitsOf(_)
BitsOf(n) == IF n = 0 THEN <<>> ELSE <<n % 2>> \o BitsOf(n \div 2)

\* without the zero bits at the top
Trim(b) ==
    IF \A i \in 1..Len(b) : b[i] = 0 THEN <<>>
    ELSE SubSeq(b, 1, CHOOSE i \in 1..Len(b) :
                          b[i] = 1 /\ \A j \in (i + 1)..Len(b) : b[j] = 0)

ShiftLeft(b, k) == [i \in 1..k |-> 0] \o b

\* the value of the k bits of b above position lo
RECURSIVE ChunkValue(_, _, _)
ChunkValue(b, lo, k) ==
    IF k = 0 THEN 0
    ELSE (IF lo + 1 <= Len(b) THEN b[lo + 1] ELSE 0)
         + 2 * ChunkValue(b, lo + 1, k - 1)

\* the same number in digits of LimbBits bits, and back
LimbsOf(b) ==
    [j \in 1..((Len(b) + LimbBits - 1) \div LimbBits) |->
        ChunkValue(b, LimbBits * (j - 1), LimbBits)]

BitsFrom(ls) ==
    [i \in 1..(LimbBits * Len(ls)) |->
        (ls[((i - 1) \div LimbBits) + 1] \div (2 ^ ((i - 1) % LimbBits))) % 2]

RECURSIVE AddLimbs(_, _, _)
AddLimbs(a, b, carry) ==
    IF a = <<>> /\ b = <<>> THEN (IF carry = 1 THEN <<1>> ELSE <<>>)
    ELSE LET x == IF a = <<>> THEN 0 ELSE Head(a)
             y == IF b = <<>> THEN 0 ELSE Head(b)
             s == x + y + carry
         IN  <<s % Limb>> \o AddLimbs(IF a = <<>> THEN a ELSE Tail(a),
                                      IF b = <<>> THEN b ELSE Tail(b),
                                      s \div Limb)

AddBits(a, b) == Trim(BitsFrom(AddLimbs(LimbsOf(a), LimbsOf(b), 0)))

\* <<quotient, remainder>> of the digits ls[1..i] by d, with the digits
\* above i already reduced to the remainder r
RECURSIVE DivLimbs(_, _, _, _)
DivLimbs(ls, i, d, r) ==
    IF i = 0 THEN <<<<>>, r>>
    ELSE LET x    == Limb * r + ls[i]
             rest == DivLimbs(ls, i - 1, d, x % d)
         IN  <<rest[1] \o <<x \div d>>, rest[2]>>

\* the double nearest to the quotient q with remainder r, times 2^e, ties to
\* the even mantissa; q has more than MantissaBits bits
RoundedQuotient(q, r, e) ==
    LET drop   == Len(q) - MantissaBits
        top    == SubSeq(q, drop + 1, Len(q))
        sticky == r # 0 \/ \E i \in 1..(drop - 1) : q[i] = 1
        up     == q[drop] = 1 /\ (sticky \/ top[1] = 1)
        m      == IF up THEN AddBits(top, <<1>>) ELSE top
    IN  IF Len(m) > MantissaBits
        THEN [m |-> Tail(m), e |-> e + drop + 1]
        ELSE [m |-> m, e |-> e + drop]

DividedLimbs(qr, e) == RoundedQuotient(Trim(BitsFrom(qr[1])), qr[2], e)

DivideShifted(ls, d, e) == DividedLimbs(DivLimbs(ls, Len(ls), d, 0), e)

\* the double nearest to num / d * 2^e
RoundToDouble(num, d, e) ==
    IF Trim(num) = <<>> THEN ZeroDouble
    ELSE DivideShifted(LimbsOf(ShiftLeft(num, 64)), d, e - 64)

\* float("t/10")
TenthsToDouble(t) == RoundToDouble(BitsOf(t), 10, 0)

\* the exact sum of doubles, as bits in units of 2^MinExponent
MinExponent == -70
RECURSIVE SumDoubles(_)
SumDoubles(ds) ==
    IF ds = <<>> THEN <<>>
    ELSE AddBits(ShiftLeft(Head(ds).m, IF Head(ds).m = <<>> THEN 0
                                       ELSE Head(ds).e - MinExponent),
                 SumDoubles(Tail(ds)))

\* statistics.mean of values given in tenths
DoubleMean(ts) ==
    RoundToDouble(SumDoubles([i \in 1..Len(ts) |-> TenthsToDouble(ts[i])]),
                  Len(ts), MinExponent)

\* x * (k2 / 2) for k2 = 6 (x * 3) and k2 = 3 (x * 1.5)
DoubleTimesHalves(x, k2) ==
    IF x.m = <<>> THEN ZeroDouble
    ELSE RoundToDouble(AddBits(x.m, ShiftLeft(x.m, 1)), 1,
                       IF k2 = 6 THEN x.e ELSE x.e - 1)

BitsLess(a, b) ==
    \E i \in 1..MantissaBits :
        a[i] < b[i] /\ \A j \in (i + 1)..MantissaBits : a[j] = b[j]

DoubleLess(x, y) ==
    IF y.m = <<>> THEN FALSE
    ELSE IF x.m = <<>> THEN TRUE
    ELSE IF x.e # y.e THEN x.e < y.e
    ELSE BitsLess(x.m, y.m)

\* video['view_velocity'] > view_velocity_avg * k2/2 as the doubles compare,
\* the mean being statistics.mean of the values
Exceeds(velocity, ts, k2) ==
    DoubleLess(DoubleTimesHalves(DoubleMean(ts), k2), TenthsToDouble(velocity))

\* view_velocity_avg > 0 and video['view_velocity'] > view_velocity_avg * k2/2.
\* Off a tie the rounding of the doubles (relative error below 2^-50) cannot
\* turn the comparison of values that differ by a 2n-th of a tenth or more;
\* on a tie the doubles decide.
VelocityAbove(velocity, ts, k2) ==
    /\ SumSeq(ts) > 0
    /\ IF 2 * Len(ts) * velocity # k2 * SumSeq(ts)
       THEN 2 * Len(ts) * velocity > k2 * SumSeq(ts)
       ELSE Exceeds(velocity, ts, k2)

-----------------------------------------------------------------------------
\* a tier rule whose last branch assigns no tier
TierWithoutFloor(scores, score, velocity, velocities) ==
    IF ZGreater(scores, score, 3, 2)
       \/ VelocityAbove(velocity, velocities, 6)
    THEN "viral"
    ELSE IF ZGreater(scores, score, 1, 2)
            \/ VelocityAbove(velocity, velocities, 3)
    THEN "hit"
    ELSE IF ZAtLeast(scores, score, -1, 2)
    THEN "average"
    ELSE ""

\* the tier rule of _classify_videos_by_algorithm, first match wins;
\* velocities are the values behind metrics_stats['view_velocity']['mean']
Tier(scores, score, velocity, velocities) ==
    IF ZGreater(scores, score, 3, 2)
       \/ VelocityAbove(velocity, velocities, 6)
    THEN "viral"
    ELSE IF ZGreater(scores, score, 1, 2)
            \/ VelocityAbove(velocity, velocities, 3)
    THEN "hit"
    ELSE IF ZAtLeast(scores, score, -1, 2)
    THEN "average"
    ELSE "underperform"

\* sorted(..., reverse=True) on <<key, item>> pairs: descending by key,
\* equal keys keep their order
RECURSIVE InsertDesc(_, _)
InsertDesc(sorted, x) ==
    IF sorted = <<>> THEN <<x>>
    ELSE IF x[1] > Head(sorted)[1] THEN <<x>> \o sorted
    ELSE <<Head(sorted)>> \o InsertDesc(Tail(sorted), x)

RECURSIVE SortedDesc(_)
SortedDesc(pairs) ==
    IF pairs = <<>> THEN <<>>
    ELSE InsertDesc(SortedDesc(SubSeq(pairs, 1, Len(pairs) - 1)),
                    pairs[Len(pairs)])

Items(pairs) == [i \in 1..Len(pairs) |-> pairs[i][2]]

\* one pass of the first loop: the video with its scores `sc` recorded
WithScores(v, sc) ==
    [v EXCEPT !.score_breakdown = sc,
              !.algorithm_score = sc.total,
              !.engagement_rate = sc.engagement_rate_raw,
              !.like_ratio = sc.like_ratio_raw,
              !.comment_rate = sc.comment_rate_raw,
              !.keys = @ \cup {"score_breakdown", "algorithm_score",
                               "engagement_rate", "like_ratio",
                               "comment_rate"}]

\* the first loop: score every video
Scored(vs, stats) ==
    [i \in 1..Len(vs) |->
        WithScores(vs[i], CalculateAlgorithmScore(vs[i], vs, stats))]

\* the second loop: z-score and tier of every video
Tiered(vs, stats) ==
    LET scores == Scores(vs)
        vvs    == IF "view_velocity" \in stats.keys
                  THEN stats.view_velocity.values ELSE <<>>
    IN  [i \in 1..Len(vs) |->
            [vs[i] EXCEPT !.z_score = ZRounded(scores, vs[i].algorithm_score),
                          !.classification =
                              Tier(scores, vs[i].algorithm_score,
                                   vs[i].view_velocity, vvs),
                          !.keys = @ \cup {"z_score", "classification"}]]

\* the degenerate path: fewer than MinClassifyVideos videos
ForcedAverage(vs) ==
    [i \in 1..Len(vs) |->
        [vs[i] EXCEPT !.classification = "average",
                      !.algorithm_score = 500,
                      !.score_breakdown = EmptyDict,
                      !.keys = @ \cup {"classification", "algorithm_score",
                                       "score_breakdown"}]]

\* a descending sort that puts the later of two equal scores first
ByScoreTiesReversed(vs) ==
    Items(SortedDesc([i \in 1..Len(vs) |->
                         <<vs[Len(vs) + 1 - i].algorithm_score,
                           vs[Len(vs) + 1 - i].video_id>>]))

\* sorted(self.videos, key=lambda x: x['algorithm_score'], reverse=True)
ByScore(vs) ==
    Items(SortedDesc([i \in 1..Len(vs) |-> <<vs[i].algorithm_score, vs[i].video_id>>]))

\* the videos as classified and self.classified_videos, sorted by score
Ranked(tiered) == [videos |-> tiered, classified |-> ByScore(tiered)]

\* a classification that scores every population statistically
ClassifyStatistically(vs, stats) ==
    Ranked(Tiered(Scored(vs, stats), stats))

\* _classify_videos_by_algorithm: the videos as it leaves them and
\* self.classified_videos (references to them)
ClassifyVideosByAlgorithm(vs, stats) ==
    IF Len(vs) < MinClassifyVideos
    THEN [videos |-> ForcedAverage(vs), classified |-> Ids(vs)]
    ELSE Ranked(Tiered(Scored(vs, stats), stats))

-----------------------------------------------------------------------------
(* Stages that order the videos by published_at *)

\* sort key x.get('published_at', ''): '' for a missing key or an empty
\* string, the ISO string (ordered as its day) otherwise; an unparseable
\* string is taken to sort after every ISO string
BadKey == 1000

PublishedKey(v) ==
    IF v.published_at.kind = "iso" THEN v.published_at.day
    ELSE IF v.published_at.kind = "bad" THEN BadKey
    ELSE 0

\* sorted() compares None with a str (or with None): TypeError
SortRaises(vs) ==
    Len(vs) >= 2 /\ \E i \in 1..Len(vs) : vs[i].published_at.kind = "null"

\* sorted(self.videos, key=lambda x: x.get('published_at', ''), reverse=True)
ByPublished(vs) ==
    Items(SortedDesc([i \in 1..Len(vs) |-> <<PublishedKey(vs[i]), vs[i].video_id>>]))

\* a split that gives the video in the middle of an odd list to the first group
TrendMidUp(n) == (n + 1) \div 2

\* the split of _analyze_trends
TrendMid(n) == n \div 2

\* statistics.mean of the values x(v) of a group, as <<num, den>>
GroupMean(group, x(_)) ==
    <<SumSeq([i \in 1..Len(group) |-> x(group[i])]), Len(group)>>

\* calc_engagement and calc_like_ratio: the mean rate of the videos with
\* views > 0, 0 for a group without one
GroupRate(group, metric) ==
    IF Viewed(group) = <<>> THEN <<0, 1>> ELSE RateMean(group, metric)

\* ((recent - older) / older * 100) if older > 0 else 0, as <<num, den>> in
\* lowest terms
ChangePercent(recent, older) ==
    IF older[1] > 0
    THEN LET num == recent[1] * older[2] - older[1] * recent[2]
             den == older[1] * recent[2]
             g   == GCD(Abs(num), den)
             h   == GCD(100, den \div g)
         IN  <<(100 \div h) * (num \div g), (den \div g) \div h>>
    ELSE <<0, 1>>

\* a label that counts a change of exactly 10 percent as a rise or a fall
TrendLabelFrom10(change) ==
    IF change[1] >= 10 * change[2] THEN "up"
    ELSE IF change[1] <= -10 * change[2] THEN "down"
    ELSE "flat"

\* '상승' if change > 10 else '하락' if change < -10 else '유지'
TrendLabel(change) ==
    IF change[1] > 10 * change[2] THEN "up"
    ELSE IF change[1] < -10 * change[2] THEN "down"
    ELSE "flat"

\* _interpret_velocity_trend
InterpretVelocityTrend(change) ==
    IF change[1] > 30 * change[2] THEN "surging"
    ELSE IF change[1] > 10 * change[2] THEN "growing"
    ELSE IF change[1] > -10 * change[2] THEN "stable"
    ELSE IF change[1] > -30 * change[2] THEN "declining"
    ELSE "plunging"

\* one record of trends: the means stay exact, change_percent is in tenths
TrendRecord(recent, older, change) ==
    [recent_avg |-> recent, older_avg |-> older,
     change_percent |-> RoundHalfEven(10 * change[1], change[2]),
     trend |-> TrendLabel(change)]

PercentTrend(recent, older) ==
    TrendRecord(recent, older, ChangePercent(recent, older))

VelocityTrend(recent, older) ==
    [interpretation |->
        InterpretVelocityTrend(ChangePercent(recent, older))]
    @@ PercentTrend(recent, older)

\* the records of _analyze_trends that carry a change_percent
PercentTrends(recent, older) ==
    [view_velocity |->
        VelocityTrend(GroupMean(recent, LAMBDA v : v.view_velocity),
                      GroupMean(older, LAMBDA v : v.view_velocity)),
     views |->
        PercentTrend(GroupMean(recent, LAMBDA v : v.view_count),
                     GroupMean(older, LAMBDA v : v.view_count)),
     engagement |->
        PercentTrend(GroupRate(recent, "engagement_rate"),
                     GroupRate(older, "engagement_rate")),
     like_ratio |->
        PercentTrend(GroupRate(recent, "like_ratio"),
                     GroupRate(older, "like_ratio")),
     comments |->
        PercentTrend(GroupMean(recent, LAMBDA v : v.comment_count),
                     GroupMean(older, LAMBDA v : v.comment_count))]

\* the videos of `vs` with the ids `ids`, in that order
Picked(vs, ids) ==
    [i \in 1..Len(ids) |-> CHOOSE v \in {vs[j] : j \in 1..Len(vs)} :
                               v.video_id = ids[i]]

TrendsOfSplit(vs, sorted, mid) ==
    [recent |-> SubSeq(sorted, 1, mid),
     older |-> SubSeq(sorted, mid + 1, Len(sorted))]
    @@ PercentTrends(Picked(vs, SubSeq(sorted, 1, mid)),
                     Picked(vs, SubSeq(sorted, mid + 1, Len(sorted))))

\* _analyze_trends (without the exception): the marker, or the two groups
\* and the records computed over them
AnalyzeTrends(vs) ==
    IF Len(vs) < MinTrendVideos
    THEN [message |-> "at least 10 videos needed"]
    ELSE TrendsOfSplit(vs, ByPublished(vs), TrendMid(Len(vs)))

TrendsRaise(vs) == Len(vs) >= MinTrendVideos /\ SortRaises(vs)

\* a growth stage that computes on a list of any size
AnalyzeGrowthTrendsUngated(vs) ==
    [videos_compared |-> Min2(10, Len(vs) \div 2) * 2]

\* _analyze_growth_trends (without the exception)
AnalyzeGrowthTrends(vs) ==
    IF Len(vs) < MinGrowthVideos
    THEN [message |-> "not enough videos"]
    ELSE [videos_compared |-> Min2(10, Len(vs) \div 2) * 2]

GrowthRaises(vs) == Len(vs) >= MinGrowthVideos /\ SortRaises(vs)

\* _analyze_upload_patterns
AnalyzeUploadPatterns(vs) ==
    LET dates == SelectSeq(vs, LAMBDA v : Truthy(v.published_at)
                                          /\ Parseable(v.published_at))
    IN  IF Len(vs) < MinUploadVideos
        THEN [message |-> "not enough videos"]
        ELSE IF Len(dates) < 2
        THEN [message |-> "not enough dates"]
        ELSE [total_videos_analyzed |-> Len(dates)]

-----------------------------------------------------------------------------
(* Stages that read the classified videos *)

\* the record a reference of self.classified_videos points to
VideoById(vs, id) == vs[CHOOSE i \in 1..Len(vs) : vs[i].video_id = id]

InTier(vs, classified, tiers) ==
    SelectSeq(classified, LAMBDA id : VideoById(vs, id).classification \in tiers)

\* _analyze_successful_videos / _analyze_unsuccessful_videos
AnalyzeVideoSet(ids) ==
    IF ids = <<>> THEN [message |-> "no such videos", patterns |-> <<>>,
                        listed_videos |-> <<>>]
    ELSE [total_count |-> Len(ids)]

AnalyzeSuccessfulVideos(vs, classified) ==
    AnalyzeVideoSet(InTier(vs, classified, {"viral", "hit"}))

AnalyzeUnsuccessfulVideos(vs, classified) ==
    AnalyzeVideoSet(InTier(vs, classified, {"underperform"}))

Tiers == {"viral", "hit", "average", "underperform"}

\* 'video_classification' of the result
VideoClassification(vs, classified) ==
    [t \in Tiers |-> InTier(vs, classified, {t})]

\* _get_classification_stats: per tier the count and the listed videos
GetClassificationStats(vs, classified) ==
    [t \in Tiers |->
        LET ids == SelectSeq(classified,
                             LAMBDA id : VideoById(vs, id).classification = t)
        IN  [count |-> Len(ids),
             videos |-> [i \in 1..Len(ids) |->
                            [video_id |-> ids[i],
                             view_count |-> VideoById(vs, ids[i]).view_count]]]]

\* the mean a/b percent is below `bound` hundredths of a percent
MeanBelow(mean, bound) == 100 * mean[1] < bound * mean[2]

\* the improvement priorities of _generate_algorithm_insights, in the order
\* of their priority; `bench` is the variable the signal analysis bound last,
\* to the benchmarks of like_ratio
ImprovementPriorities(vs, stats, bench, like_bench) ==
    (IF MeanBelow(StatMean(stats, "engagement_rate"), bench.average)
     THEN <<[priority |-> 1, area |-> "engagement", target |-> bench.good]>>
     ELSE <<>>)
    \o (IF MeanBelow(StatMean(stats, "like_ratio"), like_bench.average)
        THEN <<[priority |-> 2, area |-> "like_ratio",
                target |-> like_bench.good]>>
        ELSE <<>>)
    \o (IF SumSeq([i \in 1..Len(vs) |-> TitleCtrScore(vs[i].title)])
               < 60 * Len(vs)
        THEN <<[priority |-> 3, area |-> "title", target |-> 7000]>>
        ELSE <<>>)

\* _generate_algorithm_insights: the overall health band of the mean score
\* and the improvement priorities
GenerateAlgorithmInsights(vs, stats) ==
    LET total == SumSeq(Scores(vs))
    IN  [overall_health |-> IF total >= 700 * Len(vs) THEN "good"
                            ELSE IF total >= 500 * Len(vs) THEN "fair"
                            ELSE "poor",
         improvement_priorities |->
             ImprovementPriorities(vs, stats, YOUTUBE_BENCHMARKS.like_ratio,
                                   YOUTUBE_BENCHMARKS.like_ratio)]

\* _generate_data_driven_recommendations, its sections on the improvement
\* priorities and on the trends: category and priority of what they append
\* (a computed trend always yields the line on the title length)
GenerateDataDrivenRecommendations(insights, trends) ==
    LET ps == insights.improvement_priorities
    IN  [i \in 1..Min2(3, Len(ps)) |->
            [category |-> ps[i].area,
             priority |-> IF ps[i].priority = 1 THEN "critical" ELSE "high",
             target |-> ps[i].target]]
        \o (IF "message" \in DOMAIN trends THEN <<>>
            ELSE <<[category |-> "trend", priority |-> "high", target |-> 0]>>)

\* round(mean, 3) of a rate of metrics_stats, in thousandths
RoundedMean(stats, metric) ==
    LET m == StatMean(stats, metric) IN RoundHalfEven(1000 * m[1], m[2])

\* _get_channel_summary
GetChannelSummary(ch, vs, stats) ==
    LET views == SumSeq([i \in 1..Len(vs) |-> vs[i].view_count])
    IN  [channel_name |-> ch.channel_name,
         subscriber_count |-> ch.subscriber_count,
         total_videos_analyzed |-> Len(vs),
         total_views |-> views,
         avg_views_per_video |-> RoundHalfEven(views, Len(vs)),
         avg_view_velocity |-> RoundHalfEven(SumSeq(Velocities(vs)), Len(vs)),
         avg_engagement_rate |-> RoundedMean(stats, "engagement_rate"),
         avg_like_ratio |-> RoundedMean(stats, "like_ratio")]

-----------------------------------------------------------------------------
(* ChannelAnalyzer.analyze *)

ErrorResult == [error |-> "no videos"]

\* the analyzer after __init__(channel_data, videos)
NewAnalyzer(ch, vs) ==
    [videos |-> vs, classified_videos |-> <<>>, metrics_stats |-> EmptyStats,
     trend_data |-> EmptyDict, algorithm_insights |-> EmptyDict,
     channel |-> ch, result |-> EmptyDict, raised |-> ""]

\* the stages of analyze() after the classification: `a3` is the analyzer
\* with its videos `vs` classified and ranked as `classified`
AnalyzeClassified(a3, vs, classified, stats, stamp) ==
    IF TrendsRaise(vs)
    THEN [a3 EXCEPT !.result = EmptyDict, !.raised = "TypeError"]
    ELSE IF GrowthRaises(vs)
    THEN [a3 EXCEPT !.trend_data = AnalyzeTrends(vs),
                    !.result = EmptyDict, !.raised = "TypeError"]
    ELSE [a3 EXCEPT
           !.trend_data = AnalyzeTrends(vs),
           !.algorithm_insights = GenerateAlgorithmInsights(vs, stats),
           !.raised = "",
           !.result =
             [channel_summary |-> GetChannelSummary(a3.channel, vs, stats),
              video_classification |-> VideoClassification(vs, classified),
              classification_stats |-> GetClassificationStats(vs, classified),
              success_analysis |-> AnalyzeSuccessfulVideos(vs, classified),
              failure_analysis |-> AnalyzeUnsuccessfulVideos(vs, classified),
              upload_patterns |-> AnalyzeUploadPatterns(vs),
              growth_trends |-> AnalyzeGrowthTrends(vs),
              trend_analysis |-> AnalyzeTrends(vs),
              algorithm_insights |-> GenerateAlgorithmInsights(vs, stats),
              recommendations |->
                  GenerateDataDrivenRecommendations(
                      GenerateAlgorithmInsights(vs, stats), AnalyzeTrends(vs)),
              analyzed_at |-> stamp]]

\* the classification stage: `cl` is what _classify_videos_by_algorithm left
AnalyzeScored(a, cl, stats, stamp) ==
    AnalyzeClassified([a EXCEPT !.videos = cl.videos, !.metrics_stats = stats,
                                !.classified_videos = cl.classified],
                      cl.videos, cl.classified, stats, stamp)

\* the statistics stage over the videos `v1` that carry their velocity
AnalyzeMeasured(a, v1, stats, stamp) ==
    AnalyzeScored(a, ClassifyVideosByAlgorithm(v1, stats), stats, stamp)

\* the velocity stage done: `v1` is the list it left
AnalyzeTimed(a, v1, stamp) ==
    AnalyzeMeasured(a, v1, CalculateMetricsStats(v1, a.metrics_stats), stamp)

\* analyze() past its guard, on the non-empty list of the analyzer `a`:
\* the analyzer after the call, with what the call returned or raised;
\* clock[1] is what datetime.now() gives the velocity stage and clock[2]
\* what it gives the 'analyzed_at' entry of the result
AnalyzeVideos(a, clock) ==
    AnalyzeTimed(a, CalculateViewVelocity(a.videos, clock[1]), clock[2])

\* an analyze() that resets the derived fields when the list is empty
RunAnalyzeResetting(a, clock) ==
    IF a.videos = <<>>
    THEN [NewAnalyzer(a.channel, <<>>) EXCEPT !.result = ErrorResult]
    ELSE AnalyzeVideos(a, clock)

\* analyze(): the guard on the empty list, then the stages
RunAnalyze(a, clock) ==
    IF a.videos = <<>>
    THEN [a EXCEPT !.result = ErrorResult, !.raised = ""]
    ELSE AnalyzeVideos(a, clock)

Self ==
    [videos |-> videos, classified_videos |-> classified_videos,
     metrics_stats |-> metrics_stats, trend_data |-> trend_data,
     algorithm_insights |-> algorithm_insights, channel |-> channel,
     result |-> result, raised |-> raised]

SetSelf(a) ==
    /\ videos' = a.videos
    /\ classified_videos' = a.classified_videos
    /\ metrics_stats' = a.metrics_stats
    /\ trend_data' = a.trend_data
    /\ algorithm_insights' = a.algorithm_insights
    /\ channel' = a.channel
    /\ result' = a.result
    /\ raised' = a.raised

\* one call of analyze(); `clock` holds its two readings of datetime.now()
Analyze(clock) ==
    /\ SetSelf(RunAnalyze(Self, clock))
    /\ UNCHANGED comparatorVars
    /\ UNCHANGED <<callVars, staged, fetch>>

\* the caller empties the list it passed to the constructor, which the
\* analyzer holds by reference
ClearVideos ==
    /\ videos # <<>>
    /\ videos' = <<>>
    /\ UNCHANGED <<classified_videos, metrics_stats, trend_data,
                   algorithm_insights, channel, result, raised>>
    /\ UNCHANGED comparatorVars
    /\ UNCHANGED <<callVars, staged, fetch>>

-----------------------------------------------------------------------------
(* CompetitorAnalyzer.  Units: avg_views and subscriber_count are integers, *)
(* avg_velocity tenths, avg_engagement thousandths, the rates tenths of a   *)
(* percent.                                                                 *)

\* d.get(key, default)
Get(d, key, default) == IF key \in DOMAIN d THEN d[key] ELSE default

\* max(values, default=0)
RECURSIVE MaxSeq(_)
MaxSeq(s) == IF s = <<>> THEN 0 ELSE Max2(Head(s), MaxSeq(Tail(s)))

\* round(part / total * 100, 1) if total > 0 else 0
RatePct(part, total) ==
    IF total > 0 THEN RoundHalfEven(1000 * part, total) ELSE 0

\* _extract_detailed_summary
ExtractDetailedSummary(analysis) ==
    LET cs == Get(analysis, "channel_summary", EmptyDict)
        cl == Get(analysis, "classification_stats", EmptyDict)
        listed(t) == Get(Get(cl, t, EmptyDict), "videos", <<>>)
        viral == listed("viral")
        hit   == listed("hit")
        total == Len(viral) + Len(hit) + Len(listed("average"))
                 + Len(listed("underperform"))
        top   == viral \o hit
    IN  [channel_name |-> Get(cs, "channel_name", "None"),
         subscriber_count |-> Get(cs, "subscriber_count", 0),
         avg_views |-> Get(cs, "avg_views_per_video", 0),
         avg_velocity |-> Get(cs, "avg_view_velocity", 0),
         avg_engagement |-> Get(cs, "avg_engagement_rate", 0),
         avg_like_ratio |-> Get(cs, "avg_like_ratio", 0),
         total_videos |-> total,
         viral_count |-> Len(viral),
         hit_count |-> Len(hit),
         average_count |-> Len(listed("average")),
         underperform_count |-> Len(listed("underperform")),
         viral_rate |-> RatePct(Len(viral), total),
         hit_rate |-> RatePct(Len(hit), total),
         success_rate |-> RatePct(Len(viral) + Len(hit), total),
         top_video_views |-> MaxSeq([i \in 1..Len(top) |-> top[i].view_count])]

Summaries(analyses) ==
    [i \in 1..Len(analyses) |-> ExtractDetailedSummary(analyses[i])]

Field(summaries, f) == [i \in 1..Len(summaries) |-> summaries[i][f]]

\* safe_ratio of _compare_metrics: round(a / b * 100, 1) if b > 0 else 0
SafeRatio(a, b) == IF b > 0 THEN RoundHalfEven(1000 * a, b) ELSE 0

\* _compare_metrics
CompareMetrics(m, cs) ==
    LET comparisons ==
            [i \in 1..Len(cs) |->
                [channel_name |-> cs[i].channel_name,
                 subscriber_diff |-> m.subscriber_count - cs[i].subscriber_count,
                 subscriber_ratio |-> SafeRatio(m.subscriber_count, cs[i].subscriber_count),
                 views_diff |-> m.avg_views - cs[i].avg_views,
                 views_ratio |-> SafeRatio(m.avg_views, cs[i].avg_views),
                 velocity_diff |-> m.avg_velocity - cs[i].avg_velocity,
                 velocity_ratio |-> SafeRatio(m.avg_velocity, cs[i].avg_velocity),
                 engagement_diff |-> m.avg_engagement - cs[i].avg_engagement,
                 success_rate_diff |-> m.success_rate - cs[i].success_rate]]
    IN  [comparisons |-> comparisons,
         total_compared |-> Len(comparisons),
         better_in_views |->
             Len(SelectSeq(comparisons, LAMBDA c : c.views_diff > 0)),
         better_in_engagement |->
             Len(SelectSeq(comparisons, LAMBDA c : c.engagement_diff > 0))]

\* the metrics _analyze_rankings ranks the channels by
RankedMetrics ==
    {"subscriber_count", "avg_views", "avg_engagement", "avg_velocity",
     "viral_rate", "success_rate"}

\* sorted(all_summaries, key=lambda x: x.get(metric, 0), reverse=True), as
\* places in all_summaries
ByMetric(all, f) ==
    Items(SortedDesc([i \in 1..Len(all) |-> <<all[i][f], i>>]))

\* next(i for i, x in enumerate(sorted_list)
\*      if x['channel_name'] == main_name) + 1
RankOf(all, order, name) ==
    CHOOSE i \in 1..Len(order) :
        /\ all[order[i]].channel_name = name
        /\ \A j \in 1..(i - 1) : all[order[j]].channel_name # name

\* one entry of the rankings: `order` is the sorted list, `rank` the place
\* found for the main channel
RankingEntry(m, all, order, rank, f) ==
    [rank |-> rank,
     total |-> Len(all),
     value |-> m[f],
     top_value |-> all[order[1]][f],
     top_channel |-> all[order[1]].channel_name,
     is_top |-> rank = 1,
     gap_to_top |-> IF rank > 1 THEN all[order[1]][f] - m[f] ELSE 0]

\* the entry of one metric over all_summaries = [main] + competitors
RankingFor(m, all, f) ==
    RankingEntry(m, all, ByMetric(all, f),
                 RankOf(all, ByMetric(all, f), m.channel_name), f)

\* _analyze_rankings
AnalyzeRankings(m, cs) ==
    [f \in RankedMetrics |-> RankingFor(m, <<m>> \o cs, f)]

\* max(comp_summaries, key=...): the first summary with the largest value
BestBy(cs, f) ==
    cs[CHOOSE i \in 1..Len(cs) :
          /\ \A j \in 1..Len(cs) : cs[j][f] <= cs[i][f]
          /\ \A j \in 1..(i - 1) : cs[j][f] < cs[i][f]]

\* the advantage tests of _identify_advantages for one competitor
ViewsAdvantage(m, c) == 10 * m.avg_views > 12 * c.avg_views
EngagementAdvantage(m, c) == 10 * m.avg_engagement > 12 * c.avg_engagement
ViralAdvantage(m, c) == m.viral_rate > c.viral_rate + 50

\* main['avg_views'] / comp['avg_views'] inside the views advantage
AdvantagesRaise(m, cs) ==
    \E i \in 1..Len(cs) : ViewsAdvantage(m, cs[i]) /\ cs[i].avg_views = 0

\* _identify_advantages: the advantages found, as <<competitor, metric>>,
\* cut to the first five (no competitor raising)
RECURSIVE AdvantagesOf(_, _, _)
AdvantagesOf(m, cs, i) ==
    IF i > Len(cs) THEN <<>>
    ELSE (IF ViewsAdvantage(m, cs[i]) THEN << <<i, "views">> >> ELSE <<>>)
         \o (IF EngagementAdvantage(m, cs[i]) THEN << <<i, "engagement">> >> ELSE <<>>)
         \o (IF ViralAdvantage(m, cs[i]) THEN << <<i, "viral">> >> ELSE <<>>)
         \o AdvantagesOf(m, cs, i + 1)

IdentifyAdvantages(m, cs) ==
    LET all == AdvantagesOf(m, cs, 1)
    IN  SubSeq(all, 1, Min2(5, Len(all)))

\* round((value - avg) / avg * 100, 1) if avg > 0 else 0, avg = total / n
GapPct(value, total, n) ==
    IF total > 0 THEN RoundHalfEven(1000 * (n * value - total), total) ELSE 0

\* _analyze_performance_gaps (no competitor raising)
AnalyzePerformanceGaps(m, cs) ==
    LET n == Len(cs)
    IN  [subscriber_gap_pct |->
             GapPct(m.subscriber_count, SumSeq(Field(cs, "subscriber_count")), n),
         views_gap_pct |-> GapPct(m.avg_views, SumSeq(Field(cs, "avg_views")), n),
         best_views_channel |-> BestBy(cs, "avg_views").channel_name,
         views_gap_to_best |-> m.avg_views - BestBy(cs, "avg_views").avg_views,
         competitive_advantages |-> IdentifyAdvantages(m, cs)]

\* a rational <<num, den>> in lowest terms, den > 0
Frac(num, den) ==
    LET g == GCD(Abs(num), den) IN <<num \div g, den \div g>>

FracAdd(p, q) == Frac(p[1] * q[2] + q[1] * p[2], p[2] * q[2])

\* a sub-score that is not capped at 100
VsAverageScoreUncapped(value, total, n) ==
    IF total > 0 THEN Frac(50 * n * value, total) ELSE <<50, 1>>

\* min(100, value / avg * 50) if avg > 0 else 50, avg = total / n
VsAverageScore(value, total, n) ==
    IF total > 0
    THEN IF 50 * n * value >= 100 * total THEN <<100, 1>>
         ELSE Frac(50 * n * value, total)
    ELSE <<50, 1>>

\* round(value / avg * 100, 1) if avg > 0 else 0
VsAveragePct(value, total, n) ==
    IF total > 0 THEN RoundHalfEven(1000 * n * value, total) ELSE 0

\* _analyze_market_position
AnalyzeMarketPosition(m, cs) ==
    LET n == Len(cs)
        subs == SumSeq(Field(cs, "subscriber_count"))
        views == SumSeq(Field(cs, "avg_views"))
        velocity == SumSeq(Field(cs, "avg_velocity"))
        engagement == SumSeq(Field(cs, "avg_engagement"))
        scores ==
            [subscriber_score |-> VsAverageScore(m.subscriber_count, subs, n),
             views_score |-> VsAverageScore(m.avg_views, views, n),
             engagement_score |-> VsAverageScore(m.avg_engagement, engagement, n),
             viral_score |-> IF m.viral_rate >= 200 THEN <<100, 1>>
                             ELSE Frac(m.viral_rate, 2)]
        sum == FracAdd(FracAdd(scores.subscriber_score, scores.views_score),
                       FracAdd(scores.engagement_score, scores.viral_score))
    IN  [position |-> IF sum[1] >= 320 * sum[2] THEN "dominant"
                      ELSE IF sum[1] >= 240 * sum[2] THEN "leader"
                      ELSE IF sum[1] >= 160 * sum[2] THEN "challenger"
                      ELSE "follower",
         overall_score |-> RoundHalfEven(10 * sum[1], 4 * sum[2]),
         scores |-> [k \in DOMAIN scores |->
                        RoundHalfEven(10 * scores[k][1], scores[k][2])],
         subscriber_vs_avg |-> VsAveragePct(m.subscriber_count, subs, n),
         views_vs_avg |-> VsAveragePct(m.avg_views, views, n),
         velocity_vs_avg |-> VsAveragePct(m.avg_velocity, velocity, n),
         engagement_vs_avg |-> VsAveragePct(m.avg_engagement, engagement, n)]

\* the two tests of the views insight, avg_views = total / n
ViewsWellAbove(m, total, n) == 2 * n * m.avg_views > 3 * total
ViewsWellBelow(m, total, n) == 10 * n * m.avg_views < 7 * total

\* main['avg_views'] / avg_views inside either branch of the views insight
InsightsRaise(m, cs) ==
    LET total == SumSeq(Field(cs, "avg_views"))
        n     == Len(cs)
    IN  /\ total = 0
        /\ (ViewsWellAbove(m, total, n) \/ ViewsWellBelow(m, total, n))

\* _generate_competitive_insights: the insights appended, in order
GenerateCompetitiveInsights(m, cs) ==
    LET n       == Len(cs)
        views   == SumSeq(Field(cs, "avg_views"))
        viral   == SumSeq(Field(cs, "viral_rate"))
        engage  == SumSeq(Field(cs, "avg_engagement"))
        success == SumSeq(Field(cs, "success_rate"))
    IN  (IF ViewsWellAbove(m, views, n)
         THEN << [type |-> "positive", topic |-> "views"] >>
         ELSE IF ViewsWellBelow(m, views, n)
         THEN << [type |-> "negative", topic |-> "views"] >>
         ELSE <<>>)
        \o (IF n * m.viral_rate > viral + 100 * n
            THEN << [type |-> "positive", topic |-> "viral"] >>
            ELSE IF n * m.viral_rate < viral - 50 * n
            THEN << [type |-> "negative", topic |-> "viral"] >>
            ELSE <<>>)
        \o (IF 10 * n * m.avg_engagement > 13 * engage
            THEN << [type |-> "positive", topic |-> "engagement"] >>
            ELSE <<>>)
        \o (IF n * m.success_rate > success + 150 * n
            THEN << [type |-> "positive", topic |-> "success"] >>
            ELSE IF n * m.success_rate < success - 100 * n
            THEN << [type |-> "negative", topic |-> "success"] >>
            ELSE <<>>)

\* _generate_competitive_recommendations: category and priority of the
\* recommendations appended, in order
GenerateCompetitiveRecommendations(m, cs) ==
    LET best_subs   == BestBy(cs, "subscriber_count")
        best_views  == BestBy(cs, "avg_views")
        best_engage == BestBy(cs, "avg_engagement")
        best_viral  == BestBy(cs, "viral_rate")
        best_speed  == BestBy(cs, "avg_velocity")
        subs_gap    == best_subs.subscriber_count - m.subscriber_count
        views_gap   == best_views.avg_views - m.avg_views
        eng_gap     == best_engage.avg_engagement - m.avg_engagement
        benchmark   == \E i \in 1..Len(cs) :
                           \/ ViewsAdvantage(cs[i], m)
                           \/ EngagementAdvantage(cs[i], m)
                           \/ ViralAdvantage(cs[i], m)
        mine        == \/ m.avg_engagement >= best_engage.avg_engagement
                       \/ m.viral_rate >= best_viral.viral_rate
                       \/ m.avg_views >= best_views.avg_views
                       \/ m.avg_velocity >= best_speed.avg_velocity
        rec(c, p)   == << [category |-> c, priority |-> p] >>
    IN  (IF subs_gap > 0
         THEN rec("subscribers",
                  IF 2 * m.subscriber_count < Max2(best_subs.subscriber_count, 1)
                  THEN "critical" ELSE "high")
         ELSE <<>>)
        \o (IF views_gap > 0
            THEN rec("views",
                     IF 2 * m.avg_views < Max2(best_views.avg_views, 1)
                     THEN "critical" ELSE "high")
            ELSE <<>>)
        \o (IF eng_gap > 500
            THEN rec("engagement", IF eng_gap > 2000 THEN "high" ELSE "medium")
            ELSE <<>>)
        \o (IF best_viral.viral_rate - m.viral_rate > 50
            THEN rec("viral", "high") ELSE <<>>)
        \o (IF best_speed.avg_velocity - m.avg_velocity > 1000
            THEN rec("velocity", "high") ELSE <<>>)
        \o (IF benchmark THEN rec("benchmark", "medium") ELSE <<>>)
        \o (IF mine THEN rec("my_advantages", "medium") ELSE <<>>)
        \o rec("action_plan", "critical")

CompareError == [error |-> "no competitors"]

\* CompetitorAnalyzer.analyze: what it returns and what it raises; the
\* entries of the result are evaluated in the order of the dict display
RunCompare(mainAnalysis, compAnalyses) ==
    IF compAnalyses = <<>>
    THEN [returned |-> CompareError, raised |-> ""]
    ELSE LET m  == ExtractDetailedSummary(mainAnalysis)
             cs == Summaries(compAnalyses)
         IN  IF AdvantagesRaise(m, cs) \/ InsightsRaise(m, cs)
             THEN [returned |-> EmptyDict, raised |-> "ZeroDivisionError"]
             ELSE [returned |->
                      [main_channel |-> m,
                       competitors |-> cs,
                       metrics_comparison |-> CompareMetrics(m, cs),
                       ranking_analysis |-> AnalyzeRankings(m, cs),
                       performance_gap_analysis |-> AnalyzePerformanceGaps(m, cs),
                       market_position |-> AnalyzeMarketPosition(m, cs),
                       competitive_insights |-> GenerateCompetitiveInsights(m, cs),
                       recommendations |-> GenerateCompetitiveRecommendations(m, cs)],
                   raised |-> ""]

\* one call of CompetitorAnalyzer.analyze()
CompetitorAnalyze ==
    /\ comparison' = RunCompare(main, competitors).returned
    /\ cmp_raised' = RunCompare(main, competitors).raised
    /\ UNCHANGED <<main, competitors>>
    /\ UNCHANGED analyzerVars
    /\ UNCHANGED <<callVars, staged, fetch>>

-----------------------------------------------------------------------------
(* Inputs: the video lists and channels an analyzer is constructed with *)

\* the clock readings of datetime.now(), in days
Clocks == {11, 12}

\* the two readings of one analyze(): the one _calculate_view_velocity takes
\* and the later one that stamps the result
Readings == {c \in Clocks \X Clocks : c[1] <= c[2]}

ShortTitle   == Title(10, {}, FALSE, FALSE, 0)
PlainTitle   == Title(27, {}, FALSE, FALSE, 0)
OptimalTitle == Title(35, {"value", "numbers"}, FALSE, FALSE, 0)
LoadedTitle  == Title(40, Categories, TRUE, TRUE, 0)
LongTitle    == Title(75, {"curiosity"}, FALSE, TRUE, 3)

\* video profiles: <<title, published_at, views, likes, comments, duration>>
VideoPool ==
    << <<ShortTitle,   Iso(12),          0,   0, 0, <<3, 0>> >>,
       <<LoadedTitle,  Iso(10),          100, 5, 1, <<1, 0>> >>,
       <<PlainTitle,   NoDate("null"),   40,  1, 0, <<0, 0>> >>,
       <<LongTitle,    NoDate("bad"),    20,  0, 0, <<>> >>,
       <<OptimalTitle, NoDate("absent"), 100, 2, 0, <<0, 2, 0>> >> >>

FromProfile(id, p) == RawVideo(id, p[1], p[2], p[3], p[4], p[5], p[6])

\* every list of at most MaxVideos videos over the pool
SmallPopulations ==
    UNION { { [i \in 1..n |-> FromProfile(i, VideoPool[f[i]])] :
                f \in [1..n -> 1..Len(VideoPool)] } : n \in 0..MaxVideos }

\* profiles of the longer, patterned lists
TrendPool ==
    << <<ShortTitle,   0,  0, 0, <<>> >>,
       <<PlainTitle,   12, 1, 0, <<1, 0>> >>,
       <<OptimalTitle, 30, 1, 1, <<2, 0>> >> >>

MinPatternVideos == MaxVideos + 1
StampModulus == MaxTrendVideos + 2
StampMultipliers == {1, 5, 12}
ProfileSteps == {<<0, 0>>, <<0, 1>>, <<1, 0>>, <<1, 1>>}
MissingKinds == {"absent", "null", "empty", "bad"}
\* which videos lack a usable published_at: none, all, every third
MissingPatterns ==
    {<<"iso", 0>>} \cup (MissingKinds \X {1, 3})

\* video i of the patterned list: day a*i mod StampModulus, profiles
\* cycling through TrendPool, published_at damaged where the pattern says
PatternVideo(i, a, step, miss) ==
    LET p   == TrendPool[((i * step[1] + step[2]) % Len(TrendPool)) + 1]
        pub == IF miss[2] > 0 /\ i % miss[2] = 0
               THEN NoDate(miss[1])
               ELSE Iso((a * i) % StampModulus)
    IN  RawVideo(i, p[1], pub, p[2], p[3], p[4], p[5])

PatternPopulations ==
    { [i \in 1..n |-> PatternVideo(i, a, step, miss)] :
        n \in MinPatternVideos..MaxTrendVideos, a \in StampMultipliers,
        step \in ProfileSteps, miss \in MissingPatterns }

\* videos published on day 2: by the later reading 9 views make a
\* view_velocity of 0.9, three times the mean 0.3 beside two videos without
\* views and one and a half times the mean 0.6 beside one
ThresholdPool ==
    << <<ShortTitle,   Iso(2), 0, 0, 0, <<5, 0>> >>,
       <<ShortTitle,   Iso(2), 9, 0, 0, <<5, 0>> >>,
       <<OptimalTitle, Iso(2), 9, 0, 0, <<5, 0>> >> >>

ThresholdPopulations ==
    { [i \in 1..MinClassifyVideos |-> FromProfile(i, ThresholdPool[f[i]])] :
        f \in [1..MinClassifyVideos -> 1..Len(ThresholdPool)] }

\* lists of MinTrendVideos undated videos, the first half with a views and
\* comments each and the second with b: changes of 10 percent and around it
EdgeCounts == {9, 10, 11}

EdgePopulations ==
    { [i \in 1..MinTrendVideos |->
          LET n == IF 2 * i <= MinTrendVideos THEN a ELSE b
          IN  RawVideo(i, PlainTitle, NoDate("absent"), n, 0, n, <<5, 0>>)] :
        a \in EdgeCounts, b \in EdgeCounts }

MainChannel == [channel_name |-> "main", subscriber_count |-> 100]

IdleComparator ==
    /\ main = EmptyDict
    /\ competitors = <<>>
    /\ comparison = EmptyDict
    /\ cmp_raised = ""

\* no method called on its own, no staged run, no videos being fetched
NoCall == [fn |-> "none"]

IdleCalls ==
    /\ call = NoCall
    /\ ret = EmptyDict
    /\ staged = <<>>
    /\ fetch = EmptyDict

\* an analyzer constructed on one of the lists; no comparison under way
Init ==
    /\ \E vs \in SmallPopulations \cup PatternPopulations
                  \cup ThresholdPopulations \cup EdgePopulations :
           /\ videos = vs
           /\ classified_videos = <<>>
           /\ metrics_stats = EmptyStats
           /\ trend_data = EmptyDict
           /\ algorithm_insights = EmptyDict
           /\ channel = MainChannel
           /\ result = EmptyDict
           /\ raised = ""
    /\ IdleComparator
    /\ IdleCalls

Next ==
    \/ \E clock \in Readings : Analyze(clock)
    \/ ClearVideos

Spec == Init /\ [][Next]_vars

-----------------------------------------------------------------------------
(* Inputs of the comparator: analyses of main and competitor channels *)

RivalChannels ==
    {[channel_name |-> "rival", subscriber_count |-> 0],
     [channel_name |-> "rival", subscriber_count |-> 50]}

\* video lists as indices into VideoPool: none, views all 0, one video,
\* one outlier among videos without views, a mixed list
ComparedLists ==
    {<<>>, <<1, 1, 1>>, <<2>>, <<2, 1, 1, 1>>, <<2, 5, 4>>}

RivalLists == ComparedLists \ {<<2>>}

ProfileList(f) == [i \in 1..Len(f) |-> FromProfile(i, VideoPool[f[i]])]

\* what ChannelAnalyzer(ch, videos).analyze() returns
Analysis(ch, f) ==
    RunAnalyze(NewAnalyzer(ch, ProfileList(f)), <<12, 12>>).result

MainAnalyses == {Analysis(MainChannel, f) : f \in ComparedLists}

\* another channel that carries the display name of the main channel
NamesakeChannel == [channel_name |-> "main", subscriber_count |-> 200]

RivalAnalyses ==
    {Analysis(ch, f) : ch \in RivalChannels, f \in RivalLists}
    \cup {Analysis(NamesakeChannel, <<2, 5, 4>>)}

CompetitorLists ==
    UNION {[1..n -> RivalAnalyses] : n \in 0..MaxCompetitors}

\* the video lists of the channel analyzer that lives beside the comparator
BesideLists == {<<>>, <<2, 5, 4>>}

\* a comparator constructed on a main analysis and a list of competitor
\* analyses, beside a channel analyzer constructed on a short list
InitCmp ==
    /\ videos \in {ProfileList(f) : f \in BesideLists}
    /\ classified_videos = <<>>
    /\ metrics_stats = EmptyStats
    /\ trend_data = EmptyDict
    /\ algorithm_insights = EmptyDict
    /\ channel = MainChannel
    /\ result = EmptyDict
    /\ raised = ""
    /\ main \in MainAnalyses
    /\ competitors \in CompetitorLists
    /\ comparison = EmptyDict
    /\ cmp_raised = ""
    /\ IdleCalls

NextCmp ==
    \/ CompetitorAnalyze
    \/ \E clock \in Readings : Analyze(clock)
    \/ ClearVideos

SpecCmp == InitCmp /\ [][NextCmp]_vars

-----------------------------------------------------------------------------
(* The request handler analyze_competitors of main.py: it fetches the video *)
(* lists, analyses each and hands the analyses to a CompetitorAnalyzer.     *)

\* a fetch (extract_channel_id, get_channel_info, get_channel_videos) that
\* raised
FetchFailed == [ok |-> FALSE]

Fetched(ch, f) == [ok |-> TRUE, ch |-> ch, list |-> f]

MainFetches ==
    {Fetched(MainChannel, f) : f \in ComparedLists} \cup {FetchFailed}

RivalFetches ==
    {Fetched(ch, f) : ch \in RivalChannels, f \in {<<>>, <<2, 5, 4>>}}
    \cup {FetchFailed}

\* the outcomes of the fetches for request.competitor_urls
FetchLists == UNION {[1..n -> RivalFetches] : n \in 0..MaxCompetitors}

\* the loop over request.competitor_urls[:5]: a channel whose fetch raised
\* is skipped, the analysis of every other one is appended
CompetitorAnalyses(fetched) ==
    LET got == SelectSeq(SubSeq(fetched, 1, Min2(5, Len(fetched))),
                         LAMBDA x : x.ok)
    IN  [i \in 1..Len(got) |-> Analysis(got[i].ch, got[i].list)]

\* the handler from the construction of CompetitorAnalyzer on
HandOver(mainAnalysis, comps, run) ==
    /\ main' = mainAnalysis
    /\ competitors' = comps
    /\ comparison' = run.returned
    /\ cmp_raised' = IF run.raised = "" THEN "" ELSE "HTTPException"
    /\ ret' = IF run.raised = ""
              THEN [success |-> TRUE, competitors_analyzed |-> Len(comps)]
              ELSE EmptyDict

\* analyze_competitors(request); every exception leaves it as an
\* HTTPException with status 400
AnalyzeCompetitors ==
    /\ call = NoCall
    /\ \E m \in MainFetches, fetched \in FetchLists :
           /\ call' = [fn |-> "analyze_competitors", main |-> m,
                       fetched |-> fetched]
           /\ IF m.ok /\ CompetitorAnalyses(fetched) # <<>>
              THEN HandOver(Analysis(m.ch, m.list), CompetitorAnalyses(fetched),
                            RunCompare(Analysis(m.ch, m.list),
                                       CompetitorAnalyses(fetched)))
              ELSE /\ cmp_raised' = "HTTPException"
                   /\ ret' = EmptyDict
                   /\ UNCHANGED <<main, competitors, comparison>>
    /\ UNCHANGED <<analyzerVars, staged, fetch>>

\* no request handled yet, no comparator constructed
InitRequest ==
    /\ videos = <<>>
    /\ classified_videos = <<>>
    /\ metrics_stats = EmptyStats
    /\ trend_data = EmptyDict
    /\ algorithm_insights = EmptyDict
    /\ channel = MainChannel
    /\ result = EmptyDict
    /\ raised = ""
    /\ IdleComparator
    /\ IdleCalls

NextRequest == AnalyzeCompetitors

SpecRequest == InitRequest /\ [][NextRequest]_vars

-----------------------------------------------------------------------------
(* YouTubeAPIService.get_channel_videos: the loop over the pages of the     *)
(* uploads playlist.  A playlist is [exists, n, gone]: n items with the ids *)
(* 1..n, of which every gone-th has no details any more (gone = 0: none);   *)
(* a page token is <<offset>>, None is <<>>.                                *)

PageLimit == 50

Playlist(n, gone) == [exists |-> TRUE, n |-> n, gone |-> gone]

NoPlaylist == [exists |-> FALSE, n |-> 0, gone |-> 0]

\* playlistItems().list(maxResults=k, pageToken=token): the video ids of the
\* page and the nextPageToken
ListedPage(playlist, token, k) ==
    LET from == IF token = <<>> THEN 0 ELSE token[1]
        upto == Min2(playlist.n, from + k)
    IN  [ids |-> [i \in 1..(upto - from) |-> from + i],
         token |-> IF upto < playlist.n THEN <<upto>> ELSE <<>>]

\* videos().list(id=...): the videos that still have details
Detailed(playlist, ids) ==
    SelectSeq(ids, LAMBDA id : playlist.gone = 0 \/ id % playlist.gone # 0)

\* a page size that ignores what has been collected
PageSizeWhole(max_results, collected) == Min2(PageLimit, max_results)

\* min(50, max_results - len(videos))
PageSize(max_results, collected) == Min2(PageLimit, max_results - collected)

\* the frame at the call
NewFetch(playlist, max_results) ==
    [pc |-> "lookup", playlist |-> playlist, max_results |-> max_results,
     videos |-> <<>>, token |-> <<>>, pages |-> <<>>]

\* one turn of the loop on the page `page` requested with maxResults = k;
\* `pages` keeps what was requested and what came back
Turned(f, k, page) ==
    LET seen == Append(f.pages, [size |-> k, collected |-> Len(f.videos),
                                 ids |-> Len(page.ids), token |-> page.token])
    IN  IF page.ids = <<>>
        THEN [f EXCEPT !.pages = seen, !.pc = "return"]
        ELSE [f EXCEPT !.pages = seen,
                       !.videos = @ \o Detailed(f.playlist, page.ids),
                       !.token = page.token,
                       !.pc = IF page.token = <<>> THEN "return" ELSE "loop"]

\* get_channel_info and the check of uploads_playlist_id
LookUpPlaylist ==
    /\ fetch # EmptyDict
    /\ fetch.pc = "lookup"
    /\ fetch' = [fetch EXCEPT !.pc = IF fetch.playlist.exists THEN "loop"
                                     ELSE "raised"]
    /\ UNCHANGED <<analyzerVars, comparatorVars, callVars, staged>>

\* one turn of `while len(videos) < max_results`
ListPage ==
    /\ fetch # EmptyDict
    /\ fetch.pc = "loop"
    /\ Len(fetch.videos) < fetch.max_results
    /\ fetch' = Turned(fetch, PageSize(fetch.max_results, Len(fetch.videos)),
                       ListedPage(fetch.playlist, fetch.token,
                                  PageSize(fetch.max_results, Len(fetch.videos))))
    /\ UNCHANGED <<analyzerVars, comparatorVars, callVars, staged>>

\* a request of the turn raises HttpError, passed on as Exception
PageFails ==
    /\ fetch # EmptyDict
    /\ fetch.pc = "loop"
    /\ Len(fetch.videos) < fetch.max_results
    /\ fetch' = [fetch EXCEPT !.pc = "raised"]
    /\ UNCHANGED <<analyzerVars, comparatorVars, callVars, staged>>

\* the loop is left, by its condition or by a break: return videos
ReturnVideos ==
    /\ fetch # EmptyDict
    /\ \/ fetch.pc = "return"
       \/ fetch.pc = "loop" /\ Len(fetch.videos) >= fetch.max_results
    /\ fetch' = [fetch EXCEPT !.pc = "done"]
    /\ ret' = [videos |-> fetch.videos]
    /\ UNCHANGED <<analyzerVars, comparatorVars, call, staged>>

PlaylistLengths == {0, 1, 2, 49, 50, 51, 100, 101}
GonePatterns == {0, 1, 2, 3}
Playlists ==
    {Playlist(n, g) : n \in PlaylistLengths, g \in GonePatterns}
    \cup {NoPlaylist}
MaxResultsValues == {0, 1, 2, 50, 51, 100}

InitVideos ==
    /\ videos = <<>>
    /\ classified_videos = <<>>
    /\ metrics_stats = EmptyStats
    /\ trend_data = EmptyDict
    /\ algorithm_insights = EmptyDict
    /\ channel = MainChannel
    /\ result = EmptyDict
    /\ raised = ""
    /\ IdleComparator
    /\ ret = EmptyDict
    /\ staged = <<>>
    /\ \E playlist \in Playlists, max_results \in MaxResultsValues :
           /\ call = [fn |-> "get_channel_videos", playlist |-> playlist,
                      max_results |-> max_results]
           /\ fetch = NewFetch(playlist, max_results)

NextVideos ==
    \/ LookUpPlaylist
    \/ ListPage
    \/ PageFails
    \/ ReturnVideos

\* the call runs on: a thread that is in the loop takes its next step
SpecVideos == InitVideos /\ [][NextVideos]_vars /\ WF_vars(NextVideos)

-----------------------------------------------------------------------------
(* An analyzer whose caller shortens the list between two analyze() calls *)

\* the caller removes the last video from the list it passed to the
\* constructor; the records that stay keep what earlier runs wrote on them
DropVideo ==
    /\ Len(videos) > 1
    /\ videos' = SubSeq(videos, 1, Len(videos) - 1)
    /\ UNCHANGED <<classified_videos, metrics_stats, trend_data,
                   algorithm_insights, channel, result, raised>>
    /\ UNCHANGED comparatorVars
    /\ UNCHANGED <<callVars, staged, fetch>>

\* lists just long enough for the statistical classification
RerunLists ==
    UNION { {ProfileList(f) : f \in [1..n -> 1..Len(VideoPool)]} :
                n \in 1..MinClassifyVideos }

InitRerun ==
    /\ videos \in RerunLists
    /\ classified_videos = <<>>
    /\ metrics_stats = EmptyStats
    /\ trend_data = EmptyDict
    /\ algorithm_insights = EmptyDict
    /\ channel = MainChannel
    /\ result = EmptyDict
    /\ raised = ""
    /\ IdleComparator
    /\ IdleCalls

NextRerun ==
    \/ \E clock \in Readings : Analyze(clock)
    \/ DropVideo

SpecRerun == InitRerun /\ [][NextRerun]_vars

-----------------------------------------------------------------------------
(* Two analyzers, each on its own list, whose analyze() calls advance one  *)
(* stage at a time in any interleaving.  SCORE_WEIGHTS, YOUTUBE_BENCHMARKS *)
(* and CTR_BOOST_KEYWORDS are class attributes no method assigns to: they  *)
(* are not part of the state.                                              *)

\* an analyzer about to enter analyze(), with the list it was built on
NewRun(ch, vs) ==
    [self |-> NewAnalyzer(ch, vs), input |-> vs, pc |-> "guard",
     now |-> 0, stamp |-> 0]

\* an analyzer shared by both runs: metrics_stats as a class attribute
SharedStats(k) == {1, 2}

\* the analyzers whose metrics_stats a write through self.metrics_stats of
\* run k lands in: __init__ gives every instance a dict of its own
StatsOwners(k) == {k}

\* the run `r` with what _classify_videos_by_algorithm left as `cl`
Classed(r, cl) ==
    [r EXCEPT !.self.videos = cl.videos,
              !.self.classified_videos = cl.classified,
              !.pc = "report"]

\* `if not self.videos: return {'error': ...}`
GuardStage(k) ==
    /\ staged[k].pc = "guard"
    /\ staged' = [staged EXCEPT ![k] =
                     IF @.self.videos = <<>>
                     THEN [@ EXCEPT !.self.result = ErrorResult, !.pc = "done"]
                     ELSE [@ EXCEPT !.pc = "velocity"]]

\* self._calculate_view_velocity(), reading the clock
VelocityStage(k, now) ==
    /\ staged[k].pc = "velocity"
    /\ staged' = [staged EXCEPT ![k] =
                     [@ EXCEPT !.self.videos = CalculateViewVelocity(@, now),
                               !.now = now, !.pc = "stats"]]

\* self._calculate_metrics_stats()
StatsStage(k) ==
    /\ staged[k].pc = "stats"
    /\ staged' =
         [j \in 1..Len(staged) |->
            [staged[j] EXCEPT
               !.self.metrics_stats =
                   IF j \in StatsOwners(k)
                   THEN CalculateMetricsStats(staged[k].self.videos,
                                              staged[k].self.metrics_stats)
                   ELSE @,
               !.pc = IF j = k THEN "classify" ELSE @]]

\* self._classify_videos_by_algorithm()
ClassifyStage(k) ==
    /\ staged[k].pc = "classify"
    /\ staged' = [staged EXCEPT ![k] =
                     Classed(@, ClassifyVideosByAlgorithm(
                                    @.self.videos, @.self.metrics_stats))]

\* the stages from _analyze_trends() to the return, stamping the result
ReportStage(k, stamp) ==
    /\ staged[k].pc = "report"
    /\ stamp >= staged[k].now
    /\ staged' = [staged EXCEPT ![k] =
                     [@ EXCEPT !.self = AnalyzeClassified(
                                            @, @.videos, @.classified_videos,
                                            @.metrics_stats, stamp),
                               !.stamp = stamp, !.pc = "done"]]

\* one stage of one of the two runs
Stage(k) ==
    /\ \/ GuardStage(k)
       \/ \E now \in Clocks : VelocityStage(k, now)
       \/ StatsStage(k)
       \/ ClassifyStage(k)
       \/ \E stamp \in Clocks : ReportStage(k, stamp)
    /\ UNCHANGED <<analyzerVars, comparatorVars, callVars, fetch>>

\* the lists of the first and of the second analyzer
PairLists == {<<>>, <<2>>, <<2, 1, 1>>, <<2, 5, 4>>}

InitPair ==
    /\ videos = <<>>
    /\ classified_videos = <<>>
    /\ metrics_stats = EmptyStats
    /\ trend_data = EmptyDict
    /\ algorithm_insights = EmptyDict
    /\ channel = MainChannel
    /\ result = EmptyDict
    /\ raised = ""
    /\ IdleComparator
    /\ call = NoCall
    /\ ret = EmptyDict
    /\ fetch = EmptyDict
    /\ \E f, g \in PairLists, ch \in RivalChannels :
          staged = <<NewRun(MainChannel, ProfileList(f)),
                     NewRun(ch, ProfileList(g))>>

NextPair == \E k \in 1..2 : Stage(k)

SpecPair == InitPair /\ [][NextPair]_vars

-----------------------------------------------------------------------------
(* Methods called on their own, on arguments drawn from small sets *)

\* sub-score values, in hundredths
ScoreLevels == {0, 5000, 10000}

\* scores dicts holding any of the six weighted entries
Breakdowns ==
    UNION {[ms -> ScoreLevels] : ms \in SUBSET WeightedMetrics}

TotalCalls == {[fn |-> "total", scores |-> b] : b \in Breakdowns}

\* "이거 꿀팁 3가지 공개합니다"
TipsTitle ==
    <<51060, 44144, 32, 44992, 54017, 32, 51, 44032, 51648, 32,
      44277, 44060, 54633, 45768, 45796>>

\* nothing, "[] ", an emoji, "top 3 ", a heart (U+2764)
TitlePrefixes ==
    {<<>>, <<91, 93, 32>>, <<128293>>, <<116, 111, 112, 32, 51, 32>>,
     <<10084>>}

\* nothing, "?", "!!", " !! ?? !?", " !!! ??? !?!", a blank and eleven
\* letters, "?" and a line feed
TitleSuffixes ==
    {<<>>, <<63>>, <<33, 33>>, <<32, 33, 33, 32, 63, 63, 32, 33, 63>>,
     <<32, 33, 33, 33, 32, 63, 63, 63, 32, 33, 63, 33>>,
     <<32, 120, 120, 120, 120, 120, 120, 120, 120, 120, 120, 120>>,
     <<63, 10>>}

\* "[비밀] 지금 꿀팁 3가지 대박 왜 🔥 xxxxxxxxxx": a keyword of every category, an
\* emoji and brackets in 32 characters
LoadedText ==
    <<91, 48708, 48128, 93, 32, 51648, 44552, 32, 44992, 54017, 32, 51, 44032,
      51648, 32, 45824, 48149, 32, 50780, 32, 128293, 32, 120, 120, 120, 120,
      120, 120, 120, 120, 120, 120>>

\* titles of n letters on and around every length boundary
FillerLengths == {0, 14, 15, 19, 20, 29, 30, 50, 51, 60, 61, 70, 71}

TitleCalls ==
    {[fn |-> "title", title |-> pre \o TipsTitle \o suf] :
        pre \in TitlePrefixes, suf \in TitleSuffixes}
    \cup {[fn |-> "title", title |-> [i \in 1..n |-> 120]] : n \in FillerLengths}
    \cup {[fn |-> "title", title |-> LoadedText]}

\* like and comment counts on and just under every bucket boundary of a
\* video with 10000 views
BoundaryLikes == {0, 99, 100, 199, 200, 299, 300, 499, 500, 749, 750}
BoundaryComments == {0, 4, 5, 9, 10, 29, 30, 49, 50}

ScoreCalls ==
    {[fn |-> "score",
      video |-> RawVideo(1, PlainTitle, NoDate("absent"), views, likes,
                         comments, <<5, 0>>)] :
        views \in {0, 10000}, likes \in BoundaryLikes,
        comments \in BoundaryComments}

Calls == TotalCalls \cup TitleCalls \cup ScoreCalls

\* the weighted total of _calculate_algorithm_score over call.scores
TotalCall ==
    /\ call.fn = "total"
    /\ ret = EmptyDict
    /\ ret' = [value |-> WeightedTotal(call.scores)]
    /\ UNCHANGED <<call, staged, fetch>>
    /\ UNCHANGED <<analyzerVars, comparatorVars>>

\* _calculate_title_ctr_score(call.title)
TitleCall ==
    /\ call.fn = "title"
    /\ ret = EmptyDict
    /\ ret' = [score |-> TitleCtrScore(TitleFeatures(call.title)),
               length |-> Len(call.title)]
    /\ UNCHANGED <<call, staged, fetch>>
    /\ UNCHANGED <<analyzerVars, comparatorVars>>

\* _calculate_algorithm_score(call.video)
ScoreCall ==
    /\ call.fn = "score"
    /\ ret = EmptyDict
    /\ ret' = CalculateAlgorithmScore(call.video, videos, metrics_stats)
    /\ UNCHANGED <<call, staged, fetch>>
    /\ UNCHANGED <<analyzerVars, comparatorVars>>

\* an analyzer without videos; one method about to be called on its own
InitCalls ==
    /\ videos = <<>>
    /\ classified_videos = <<>>
    /\ metrics_stats = EmptyStats
    /\ trend_data = EmptyDict
    /\ algorithm_insights = EmptyDict
    /\ channel = MainChannel
    /\ result = EmptyDict
    /\ raised = ""
    /\ IdleComparator
    /\ call \in Calls
    /\ ret = EmptyDict
    /\ staged = <<>>
    /\ fetch = EmptyDict

NextCalls ==
    \/ TotalCall
    \/ TitleCall
    \/ ScoreCall

SpecCalls == InitCalls /\ [][NextCalls]_vars

-----------------------------------------------------------------------------
(* Properties *)

\* analyze() has been called on the current, non-empty list
Called == videos # <<>> /\ (result # EmptyDict \/ raised # "")

\* ... and has returned the full result
Analyzed == videos # <<>> /\ "channel_summary" \in DOMAIN result

\* published_at is missing (absent, None, '') or cannot be parsed
NoUsableDate(v) == ~(Truthy(v.published_at) /\ Parseable(v.published_at))

\* C1: on a non-empty competitor list CompetitorAnalyzer.analyze() returns a
\* comparison, and no step of it divides by zero, whatever averages are 0.
C1_NoDivisionByZero ==
    competitors # <<>> => cmp_raised = ""

\* C2: on a non-empty list whose videos may lack a usable published_at,
\* analyze() never raises; it returns the full result, and every such video
\* has view_velocity = view_count and days_since_upload = 1.
C2_MissingDateNeverRaises ==
    Called =>
        /\ raised = ""
        /\ Analyzed
        /\ \A i \in 1..Len(videos) :
               NoUsableDate(videos[i]) =>
                   /\ videos[i].view_velocity = 10 * videos[i].view_count
                   /\ videos[i].days_since_upload = 1

\* every video has a timestamp and no two are equal
DistinctTimestamps(vs) ==
    /\ \A i \in 1..Len(vs) : vs[i].published_at.kind = "iso"
    /\ \A i, j \in 1..Len(vs) :
           i # j => vs[i].published_at.day # vs[j].published_at.day

\* _analyze_trends has split the current list
TrendSplit == Analyzed /\ "recent" \in DOMAIN trend_data

\* the two groups are disjoint and cover the list
SplitIsPartition ==
    LET r == trend_data.recent
        o == trend_data.older
    IN  /\ Len(r) + Len(o) = Len(videos)
        /\ {r[i] : i \in 1..Len(r)} \cap {o[i] : i \in 1..Len(o)} = {}
        /\ {r[i] : i \in 1..Len(r)} \cup {o[i] : i \in 1..Len(o)}
               = {videos[i].video_id : i \in 1..Len(videos)}

\* every video of recent was published later than every video of older
RecentIsLater ==
    \A i \in 1..Len(trend_data.recent), j \in 1..Len(trend_data.older) :
        VideoById(videos, trend_data.recent[i]).published_at.day
            > VideoById(videos, trend_data.older[j]).published_at.day

AllIds == {videos[i].video_id : i \in 1..Len(videos)}

ListedIn(t) ==
    {result.video_classification[t][i] :
        i \in 1..Len(result.video_classification[t])}

\* C4: after analyze() on 3 or more videos every video carries one
\* classification of the four tiers; classified_videos has the length of the
\* input and holds each video exactly once; the four lists of
\* video_classification are pairwise disjoint and together hold every video;
\* the four counts of classification_stats sum to the input length.
C4_TierPartition ==
    (Analyzed /\ Len(videos) >= 3) =>
        /\ \A i \in 1..Len(videos) :
               /\ "classification" \in videos[i].keys
               /\ videos[i].classification \in Tiers
        /\ Len(classified_videos) = Len(videos)
        /\ \A id \in AllIds :
               Cardinality({k \in 1..Len(classified_videos) :
                               classified_videos[k] = id}) = 1
        /\ \A t, u \in Tiers : t # u => ListedIn(t) \cap ListedIn(u) = {}
        /\ UNION {ListedIn(t) : t \in Tiers} = AllIds
        /\ Len(result.video_classification.viral)
             + Len(result.video_classification.hit)
             + Len(result.video_classification.average)
             + Len(result.video_classification.underperform) = Len(videos)
        /\ result.classification_stats.viral.count
             + result.classification_stats.hit.count
             + result.classification_stats.average.count
             + result.classification_stats.underperform.count = Len(videos)

\* a population of 3 or more videos classified into three tiers or more
C4_SeveralTiers ==
    /\ Analyzed
    /\ Len(videos) >= 3
    /\ Cardinality({t \in Tiers : ListedIn(t) # {}}) >= 3
    /\ ListedIn("underperform") # {}

\* C5: for a population of exactly 1 or 2 videos every video is classified
\* 'average' with algorithm_score 50 and an empty score_breakdown, and no
\* statistical scoring (z-score) is performed.
C5_DegeneratePath ==
    (Analyzed /\ Len(videos) \in {1, 2}) =>
        \A i \in 1..Len(videos) :
            /\ {"classification", "algorithm_score", "score_breakdown"}
                   \subseteq videos[i].keys
            /\ videos[i].classification = "average"
            /\ videos[i].algorithm_score = 500
            /\ videos[i].score_breakdown = EmptyDict
            /\ "z_score" \notin videos[i].keys

\* two videos with different counters went through the degenerate path
C5_TwoUnequalVideos ==
    /\ Analyzed
    /\ Len(videos) = 2
    /\ videos[1].view_count > videos[2].view_count
    /\ videos[1].like_count > videos[2].like_count

\* C6: every video with view_count = 0, in a population of any size, has
\* engagement_rate, like_ratio and comment_rate defined and equal to 0 after
\* analyze().
C6_ZeroViewsRatesDefined ==
    Analyzed =>
        \A i \in 1..Len(videos) :
            videos[i].view_count = 0 =>
                /\ {"engagement_rate", "like_ratio", "comment_rate"}
                       \subseteq videos[i].keys
                /\ videos[i].engagement_rate = 0
                /\ videos[i].like_ratio = 0
                /\ videos[i].comment_rate = 0

\* C10: after analyze() on a non-empty population every algorithm_score is
\* in [0,100], and so is each of the six weighted sub-scores of a non-empty
\* score_breakdown.
C10_ScoresInRange ==
    Analyzed =>
        \A i \in 1..Len(videos) :
            /\ 0 <= videos[i].algorithm_score
            /\ videos[i].algorithm_score <= 1000
            /\ videos[i].score_breakdown # EmptyDict =>
                   \A m \in WeightedMetrics :
                       /\ 0 <= videos[i].score_breakdown[m]
                       /\ videos[i].score_breakdown[m] <= 10000

\* a scored video whose title collects more bonus than the scale holds
C10_TitleScoreAtCeiling ==
    /\ Analyzed
    /\ \E i \in 1..Len(videos) :
           /\ videos[i].score_breakdown # EmptyDict
           /\ videos[i].score_breakdown.title_ctr_score = 10000
           /\ TitleRawScore(videos[i].title) > 100

\* C7: analyze() on an empty video list returns a result that holds the
\* error marker and nothing else, and leaves classified_videos,
\* metrics_stats, trend_data and algorithm_insights as they were;
\* CompetitorAnalyzer.analyze() on an empty competitor list returns only an
\* error marker.
C7_EmptyInputOnlyError ==
    [][/\ (videos = <<>> /\ \E clock \in Readings : Analyze(clock)) =>
              /\ DOMAIN result' = {"error"}
              /\ raised' = ""
              /\ UNCHANGED <<classified_videos, metrics_stats, trend_data,
                             algorithm_insights>>
       /\ (competitors = <<>> /\ CompetitorAnalyze) =>
              /\ DOMAIN comparison' = {"error"}
              /\ cmp_raised' = ""]_vars

\* both error markers returned, the analyzer holding the derived fields of
\* an earlier analysis
C7_ErrorAfterEarlierAnalysis ==
    /\ videos = <<>>
    /\ result = ErrorResult
    /\ classified_videos # <<>>
    /\ metrics_stats # EmptyStats
    /\ algorithm_insights # EmptyDict
    /\ competitors = <<>>
    /\ comparison = CompareError

\* published_at, where present, is a string
WellFormed(vs) == \A i \in 1..Len(vs) : vs[i].published_at.kind # "null"

IsMarker(r) == DOMAIN r = {"message"}

UsableDates(vs) == Len(SelectSeq(vs, LAMBDA v : ~NoUsableDate(v)))

\* C8: on a well-formed list of N >= 1 videos analyze() completes without
\* raising, and each size-gated stage returns a marker holding only a
\* message below its threshold and a computed result otherwise: trends need
\* N >= 10, growth N >= 5, upload patterns N >= 2 and 2 parseable dates,
\* statistical classification N >= 3; the success and failure analyses
\* return a message record when their video set is empty.
C8_SizeGatedStages ==
    (Called /\ WellFormed(videos)) =>
        /\ raised = ""
        /\ Analyzed
        /\ IsMarker(result.trend_analysis) <=> Len(videos) < 10
        /\ "recent" \in DOMAIN result.trend_analysis <=> Len(videos) >= 10
        /\ IsMarker(result.growth_trends) <=> Len(videos) < 5
        /\ "videos_compared" \in DOMAIN result.growth_trends <=> Len(videos) >= 5
        /\ IsMarker(result.upload_patterns)
               <=> (Len(videos) < 2 \/ UsableDates(videos) < 2)
        /\ "total_videos_analyzed" \in DOMAIN result.upload_patterns
               <=> (Len(videos) >= 2 /\ UsableDates(videos) >= 2)
        /\ (\A i \in 1..Len(videos) : "z_score" \in videos[i].keys)
               <=> Len(videos) >= 3
        /\ (\A i \in 1..Len(videos) : "z_score" \notin videos[i].keys)
               <=> Len(videos) < 3
        /\ "message" \in DOMAIN result.success_analysis
               <=> ListedIn("viral") \cup ListedIn("hit") = {}
        /\ "message" \in DOMAIN result.failure_analysis
               <=> ListedIn("underperform") = {}

\* a list long enough for the growth stage, too short for the trend stage
\* and without dates for the upload stage
C8_GrowthWithoutTrend ==
    /\ Called
    /\ WellFormed(videos)
    /\ Len(videos) >= 5
    /\ Len(videos) < 10
    /\ UsableDates(videos) < 2
    /\ "message" \notin DOMAIN result.success_analysis

\* the amounts, in tenths, a view_velocity is raised by
VelocityRaises == {1, 20}

\* the algorithm_score of video i once its view_velocity is raised by d, the
\* population statistics recomputed
ScoreWithRaise(i, d) ==
    LET vs    == [videos EXCEPT ![i].view_velocity = @ + d]
        stats == CalculateMetricsStats(vs, metrics_stats)
    IN  CalculateAlgorithmScore(vs[i], vs, stats).total

\* C9: in a population of 3 or more videos, raising one video's
\* view_velocity, every other metric fixed and mean and stdev recomputed,
\* never lowers that video's algorithm_score.
C9_VelocityMonotone ==
    (Analyzed /\ Len(videos) >= 3) =>
        \A i \in 1..Len(videos), d \in VelocityRaises :
            ScoreWithRaise(i, d) >= videos[i].algorithm_score

\* a raise that lifts the score
C9_RaiseLiftsScore ==
    /\ Analyzed
    /\ Len(videos) >= 3
    /\ \E i \in 1..Len(videos), d \in VelocityRaises :
           ScoreWithRaise(i, d) > videos[i].algorithm_score

-----------------------------------------------------------------------------
\* C11: the six weights sum to 1.0 (100 hundredths); the total of a scores
\* dict whose six entries are all 50 is exactly 50; an entry missing from the
\* dict counts as 50 in the weighted sum, so the total is that of the dict
\* completed with 50s.
SumOfWeights ==
    SCORE_WEIGHTS.view_velocity + SCORE_WEIGHTS.engagement_rate
    + SCORE_WEIGHTS.like_ratio + SCORE_WEIGHTS.comment_rate
    + SCORE_WEIGHTS.title_ctr_score + SCORE_WEIGHTS.duration_efficiency

CompletedWith50(scores) ==
    [m \in WeightedMetrics |-> IF m \in DOMAIN scores THEN scores[m] ELSE 5000]

TotalReturned == call.fn = "total" /\ ret # EmptyDict

C11_WeightConservation ==
    /\ SumOfWeights = 100
    /\ TotalReturned =>
          /\ ret.value = WeightedTotal(CompletedWith50(call.scores))
          /\ (\A m \in WeightedMetrics : CompletedWith50(call.scores)[m] = 5000)
                => ret.value = 500

\* a total returned for a dict that lacks entries and whose others are 50
C11_MissingEntriesAt50 ==
    /\ TotalReturned
    /\ DOMAIN call.scores = {"view_velocity", "like_ratio"}
    /\ \A m \in DOMAIN call.scores : call.scores[m] = 5000
    /\ ret.value = 500

-----------------------------------------------------------------------------
\* the place of a video in self.videos / in self.classified_videos
PlaceIn(ids, id) == CHOOSE i \in 1..Len(ids) : ids[i] = id

\* analyze() has classified the current list on the statistical path
Classified == Called /\ Len(videos) >= MinClassifyVideos

\* C12: after the classification of 3 or more videos classified_videos holds
\* every video once, by algorithm_score non-increasing, and two videos with
\* equal scores stand in the order they have in the input list.
C12_SortedByScoreStable ==
    Classified =>
        /\ Len(classified_videos) = Len(videos)
        /\ {classified_videos[i] : i \in 1..Len(classified_videos)} = AllIds
        /\ \A i, j \in 1..Len(classified_videos) :
              i < j =>
                LET a == VideoById(videos, classified_videos[i])
                    b == VideoById(videos, classified_videos[j])
                IN  /\ a.algorithm_score >= b.algorithm_score
                    /\ a.algorithm_score = b.algorithm_score
                          => PlaceIn(Ids(videos), a.video_id)
                             < PlaceIn(Ids(videos), b.video_id)

\* a classified list with two equal scores below a higher score that comes
\* later in the input
C12_TieBelowLaterLeader ==
    /\ Classified
    /\ \E i, j, k \in 1..Len(videos) :
          /\ i < j /\ j < k
          /\ videos[i].algorithm_score = videos[j].algorithm_score
          /\ videos[k].algorithm_score > videos[i].algorithm_score
          /\ classified_videos[1] = videos[k].video_id

-----------------------------------------------------------------------------
\* C13: one analyze() reads the clock once: the result is the one a call
\* with that single reading gives, so two calls on equal inputs with the
\* same clock value return identical results.
C13_SingleClockReading ==
    Analyzed => \E t \in Clocks : result = RunAnalyze(Self, <<t, t>>).result

-----------------------------------------------------------------------------
\* the record as the API client built it, without any derived key
Underived(v) ==
    RawVideo(v.video_id, v.title, v.published_at, v.view_count, v.like_count,
             v.comment_count, v.duration)

\* the analyzer a first analyze() leaves, constructed on the same records
\* without their derived keys
FreshRun(clock) ==
    RunAnalyze(NewAnalyzer(channel, [i \in 1..Len(videos) |-> Underived(videos[i])]),
               clock)

\* C14: after any sequence of runs, a run leaves every derived field of
\* every record and every entry of metrics_stats as that run alone computes
\* them: the same as one run on the records without derived fields leaves.
C14_LatestRunOnly ==
    [][\A clock \in Readings :
          (videos # <<>> /\ Analyze(clock)) =>
              /\ videos' = FreshRun(clock).videos
              /\ metrics_stats' = FreshRun(clock).metrics_stats]_vars

-----------------------------------------------------------------------------
\* C15: after analyze() on a non-empty list every video has a z_score: 0 when
\* the list has fewer than 3 videos or the stdev of algorithm_score is 0,
\* (score - mean)/stdev (to two decimals) otherwise.
C15_ZScoreOnEveryVideo ==
    Called =>
        \A i \in 1..Len(videos) :
            /\ "z_score" \in videos[i].keys
            /\ videos[i].z_score =
                  IF Len(videos) < MinClassifyVideos
                     \/ ~StdevPositive(Scores(videos))
                  THEN 0
                  ELSE ZRounded(Scores(videos), videos[i].algorithm_score)

-----------------------------------------------------------------------------
\* the analyzer of a staged run as its analyze() leaves it when run alone
RunAlone(r) ==
    RunAnalyze(NewAnalyzer(r.self.channel, r.input), <<r.now, r.stamp>>)

\* C16: two runs over lists of their own, their stages interleaved in any
\* order, each end as when run alone, and a run that has not started is
\* still as constructed: no stage writes to state of the other run.
C16_RunsDoNotInterfere ==
    \A k \in 1..Len(staged) :
        /\ staged[k].pc = "done" => staged[k].self = RunAlone(staged[k])
        /\ staged[k].pc = "guard"
              => staged[k].self = NewAnalyzer(staged[k].self.channel,
                                              staged[k].input)

\* the second run has returned its full result while the first run, on a
\* list long enough for every statistic, is between two of its stages
C16_FinishedBesideRunning ==
    /\ Len(staged) = 2
    /\ staged[2].pc = "done"
    /\ "channel_summary" \in DOMAIN staged[2].self.result
    /\ staged[1].pc = "classify"
    /\ Len(staged[1].input) >= MinClassifyVideos

-----------------------------------------------------------------------------
\* the title scorer has returned for the title "이거 꿀팁 3가지 공개합니다"
TipsScored == call.fn = "title" /\ call.title = TipsTitle /\ ret # EmptyDict

\* the only bonuses of the title are those of the value and numbers categories
TipsBonuses ==
    /\ TitleFeatures(TipsTitle).cats = {"value", "numbers"}
    /\ ~TitleFeatures(TipsTitle).emoji
    /\ ~TitleFeatures(TipsTitle).bracket
    /\ TitleFeatures(TipsTitle).special_runs <= 2

\* C17 as stated: the title "이거 꿀팁 3가지 공개합니다" scores 68: base 50, +5
\* for its length, +6 value, +7 numbers, nothing else.
C17_TipsTitleScores68 ==
    TipsScored =>
        /\ ret.score = 68
        /\ LengthAdjustment(ret.length) = 5
        /\ TipsBonuses

\* C17 amended: the title has 15 characters, which earns no length
\* adjustment, so it scores 63: base 50, +6 value, +7 numbers, nothing else.
C17_TipsTitleScores63 ==
    TipsScored =>
        /\ ret.score = 63
        /\ ret.length = 15
        /\ LengthAdjustment(ret.length) = 0
        /\ TipsBonuses

C17_TipsTitleScored == TipsScored /\ ret.score = 50 + 6 + 7

-----------------------------------------------------------------------------
\* CompetitorAnalyzer.analyze() has returned the full comparison
Compared == "main_channel" \in DOMAIN comparison

\* C18: for each ranked metric the rank of the main channel is 1 plus the
\* number of competitors with a strictly greater value; is_top holds exactly
\* when the rank is 1; gap_to_top is 0 at rank 1 and otherwise the top value
\* minus the main value, never negative; top_channel holds the top value.
C18_RankCountsGreater ==
    Compared =>
        \A f \in RankedMetrics :
            LET r   == comparison.ranking_analysis[f]
                m   == comparison.main_channel
                cs  == comparison.competitors
                top == MaxSeq(<<m[f]>> \o Field(cs, f))
            IN  /\ r.rank = 1 + Cardinality({i \in 1..Len(cs) : cs[i][f] > m[f]})
                /\ r.is_top = (r.rank = 1)
                /\ r.gap_to_top = (IF r.rank = 1 THEN 0 ELSE top - m[f])
                /\ r.gap_to_top >= 0
                /\ \E x \in {m} \cup {cs[i] : i \in 1..Len(cs)} :
                      x.channel_name = r.top_channel /\ x[f] = top

-----------------------------------------------------------------------------
\* `score` (in tenths) is min(100, value / avg * 50) to one decimal, or 50
\* when the competitor average avg = total / n is 0
IsVsAverageScore(score, value, total, n) ==
    IF total = 0 THEN score = 500
    ELSE IF 50 * n * value >= 100 * total THEN score = 1000
    ELSE 2 * Abs(500 * n * value - score * total) <= total

\* four times the overall score, from the sub-scores before rounding
FourfoldOverall(m, cs) ==
    LET n == Len(cs)
    IN  FracAdd(FracAdd(VsAverageScore(m.subscriber_count,
                                       SumSeq(Field(cs, "subscriber_count")), n),
                        VsAverageScore(m.avg_views,
                                       SumSeq(Field(cs, "avg_views")), n)),
                FracAdd(VsAverageScore(m.avg_engagement,
                                       SumSeq(Field(cs, "avg_engagement")), n),
                        IF m.viral_rate >= 200 THEN <<100, 1>>
                        ELSE <<m.viral_rate, 2>>))

\* the band of an overall score given as the fraction q of its fourfold
BandOf(q) ==
    IF q[1] >= 4 * 80 * q[2] THEN "dominant"
    ELSE IF q[1] >= 4 * 60 * q[2] THEN "leader"
    ELSE IF q[1] >= 4 * 40 * q[2] THEN "challenger"
    ELSE "follower"

-----------------------------------------------------------------------------
\* velocity > k2/2 times the mean of the population's view_velocity, the mean
\* taken exactly
AboveMeanVelocity(velocity, vs, k2) ==
    2 * Len(vs) * velocity > k2 * SumSeq(Velocities(vs))

\* the tier the ordered rule gives video i of vs
TierByRule(vs, i) ==
    LET scores == Scores(vs)
        score  == vs[i].algorithm_score
    IN  IF ZGreater(scores, score, 3, 2)
           \/ AboveMeanVelocity(vs[i].view_velocity, vs, 6)
        THEN "viral"
        ELSE IF ZGreater(scores, score, 1, 2)
                \/ AboveMeanVelocity(vs[i].view_velocity, vs, 3)
        THEN "hit"
        ELSE IF ZAtLeast(scores, score, -1, 2) THEN "average"
        ELSE "underperform"

\* C20: with 3 or more videos the tier of each video is the first match of:
\* z > 1.5 or velocity > 3 x mean velocity, viral; z > 0.5 or velocity >
\* 1.5 x mean velocity, hit; z >= -0.5, average; else underperform, z being
\* the z-score of algorithm_score (0 when the stdev is 0) and mean velocity
\* the population mean of view_velocity.
C20_TierByFirstMatch ==
    Classified =>
        \A i \in 1..Len(videos) :
            videos[i].classification = TierByRule(videos, i)

-----------------------------------------------------------------------------
\* _calculate_algorithm_score has returned the scores of call.video
ScoreReturned == call.fn = "score" /\ ret # EmptyDict

\* the score of the first of the four thresholds (in hundredths of a
\* percent) that the rate count / views * 100 meets, 20 if it meets none
FirstMet(count, views, thresholds) ==
    LET met == {k \in 1..4 : 100 * 100 * count >= thresholds[k] * views}
    IN  IF met = {} THEN 20
        ELSE <<95, 75, 55, 35>>[CHOOSE k \in met : \A l \in met : k <= l]

\* the three rate sub-scores of the returned dict follow the bucket tables
RatesBucketed ==
    /\ ret.engagement_rate =
          100 * FirstMet(EngagementCount(call.video), call.video.view_count,
                         <<800, 500, 300, 150>>)
    /\ ret.like_ratio =
          100 * FirstMet(call.video.like_count, call.video.view_count,
                         <<500, 300, 200, 100>>)
    /\ ret.comment_rate =
          100 * FirstMet(call.video.comment_count, call.video.view_count,
                         <<50, 30, 10, 5>>)

\* the video with 10000 views, 500 likes and 50 comments
IsExampleVideo(v) ==
    v.view_count = 10000 /\ v.like_count = 500 /\ v.comment_count = 50

\* engagement_rate 5.5, like_ratio 5.0 scoring 95, comment_rate 0.5 scoring 95
ExampleScored ==
    /\ ret.engagement_rate_raw = 5500
    /\ ret.like_ratio_raw = 5000 /\ ret.like_ratio = 9500
    /\ ret.comment_rate_raw = 500 /\ ret.comment_rate = 9500

\* C21 as stated: for every video the engagement_rate, like_ratio and
\* comment_rate sub-scores are each one of 95, 75, 55, 35, 20, the score of
\* the first threshold the rate meets, boundaries inclusive; 10000 views, 500
\* likes and 50 comments give rates 5.5, 5.0 and 0.5, the last two scoring 95.
C21_RateBucketsEveryVideo ==
    ScoreReturned =>
        /\ RatesBucketed
        /\ IsExampleVideo(call.video) => ExampleScored

\* C21 amended: the same for every video with view_count > 0; a video with
\* view_count = 0 has the three sub-scores 0.
C21_RateBucketsViewedVideo ==
    ScoreReturned =>
        /\ call.video.view_count > 0 => RatesBucketed
        /\ call.video.view_count = 0 =>
              /\ ret.engagement_rate = 0
              /\ ret.like_ratio = 0
              /\ ret.comment_rate = 0
        /\ IsExampleVideo(call.video) => ExampleScored

\* the example video scored, its like ratio and comment rate on the
\* boundary of the top bucket
C21_ExampleOnBoundary ==
    ScoreReturned /\ IsExampleVideo(call.video) /\ ExampleScored

-----------------------------------------------------------------------------
\* a/b < c/e for naturals a, c and positive b, e, by continued fractions
RECURSIVE RatioLess(_, _, _, _)
RatioLess(a, b, c, e) ==
    IF a \div b # c \div e THEN a \div b < c \div e
    ELSE IF c % e = 0 THEN FALSE
    ELSE IF a % b = 0 THEN TRUE
    ELSE RatioLess(e, c % e, b, a % b)

\* (x - mean) / stdev >= p/q over the population xs of positive stdev
ZNotBelow(xs, x, p, q) ==
    LET g  == GCDSeq(xs)
        ys == [i \in 1..Len(xs) |-> xs[i] \div g]
        d  == Deviation(ys, x \div g)
        a  == d * d * (Len(ys) - 1)
        b  == Len(ys) * VarianceNum(ys)
    IN  IF p <= 0 /\ d >= 0 THEN TRUE
        ELSE IF p > 0 /\ d <= 0 THEN FALSE
        ELSE IF p > 0 THEN ~RatioLess(a, b, p * p, q * q)
        ELSE ~RatioLess(p * p, q * q, a, b)

\* s, in hundredths, is 50 + slope * z clamped to [0, 100] and cut to two
\* decimals, z the z-score of x in xs
IsZSubScore(s, xs, x, slope) ==
    /\ 0 <= s /\ s <= 10000
    /\ s = 0 \/ ZNotBelow(xs, x, s - 5000, 100 * slope)
    /\ s = 10000 \/ ~ZNotBelow(xs, x, s - 4999, 100 * slope)

\* the weighted sum of the six sub-scores of a breakdown, in 1/10000
WeightedSum(b) ==
    25 * b.view_velocity + 20 * b.engagement_rate + 15 * b.like_ratio
    + 10 * b.comment_rate + 15 * b.title_ctr_score + 15 * b.duration_efficiency

\* analyze() has scored video i
ScoredVideo(i) == Called /\ videos[i].score_breakdown # EmptyDict

-----------------------------------------------------------------------------
\* _calculate_title_ctr_score has returned the score of call.title
TitleReturned == call.fn = "title" /\ ret # EmptyDict

\* the maximal runs of '!' and '?' in t that have k or more characters
RunsOfAtLeast(t, k) ==
    {i \in 1..Len(t) :
        /\ Shouts(t, i) /\ ~Shouts(t, i - 1)
        /\ \A j \in i..(i + k - 1) : Shouts(t, j)}

\* the length adjustment, by the bands of the rule
LengthBand(n) ==
    CASE n >= 30 /\ n <= 50 -> 10
      [] (n >= 20 /\ n < 30) \/ (n > 50 /\ n <= 60) -> 5
      [] n < 15 -> -10
      [] n > 70 -> -5
      [] OTHER -> 0

\* the bonuses of the categories with a keyword in t, each once
CategoryBonuses(t) ==
    LET has(c) == \E kw \in CTR_BOOST_KEYWORDS[c] : Search(kw, t)
    IN  (IF has("curiosity") THEN 8 ELSE 0) + (IF has("numbers") THEN 7 ELSE 0)
        + (IF has("urgency") THEN 5 ELSE 0) + (IF has("value") THEN 6 ELSE 0)
        + (IF has("emotion") THEN 7 ELSE 0) + (IF has("question") THEN 5 ELSE 0)

\* code points outside U+1F300..U+1F9FF that are emoji: U+2764, U+1FAE0
OtherEmoji == {10084, 129760}

HasBracket(t) == \E i \in 1..Len(t) : t[i] \in {91, 93, 40, 41, 12304, 12305}

\* the score of the rule for a title with `emoji` and `runs` as given
RuleScore(t, emoji, runs) ==
    LET raw == 50 + LengthBand(Len(t)) + CategoryBonuses(t)
               + (IF emoji THEN 3 ELSE 0) + (IF HasBracket(t) THEN 4 ELSE 0)
               - (IF runs > 2 THEN 5 ELSE 0)
    IN  IF raw < 0 THEN 0 ELSE IF raw > 100 THEN 100 ELSE raw

\* C23 as stated: the title score is clamp(0, 100, 50 + length adjustment +
\* category bonuses + 3 for an emoji + 4 for a bracket or parenthesis - 5 if
\* runs of 3 or more consecutive '!'/'?' occur more than twice), the length
\* adjustment being +10 for 30-50 characters, +5 for 20-60, -10 under 15, -5
\* over 70, else 0, and each category counting at most once.
C23_TitleRuleRunsOfThree ==
    TitleReturned =>
        ret.score =
            RuleScore(call.title,
                      \E i \in 1..Len(call.title) :
                          \/ call.title[i] \in 127744..129535
                          \/ call.title[i] \in OtherEmoji,
                      Cardinality(RunsOfAtLeast(call.title, 3)))

\* C23 amended: the same with the penalty for more than two runs of 2 or more
\* consecutive '!'/'?', and the emoji bonus for a code point in
\* U+1F300..U+1F9FF.
C23_TitleRuleRunsOfTwo ==
    TitleReturned =>
        ret.score =
            RuleScore(call.title,
                      \E i \in 1..Len(call.title) :
                          call.title[i] \in 127744..129535,
                      Cardinality(RunsOfAtLeast(call.title, 2)))

\* a title scored with three runs of exactly two marks, and so penalised
C23_ThreeShortRuns ==
    /\ TitleReturned
    /\ Cardinality(RunsOfAtLeast(call.title, 2)) = 3
    /\ RunsOfAtLeast(call.title, 3) = {}
    /\ ret.score = 50 + 5 + 6 + 7 + 5 - 5

-----------------------------------------------------------------------------
\* _analyze_trends has computed its records over the current list
TrendsComputed == Analyzed /\ "views" \in DOMAIN trend_data

PercentMetrics ==
    {"view_velocity", "views", "engagement", "like_ratio", "comments"}

\* t tenths is 100 * n / d rounded to one decimal; d > 0
IsPercentInTenths(t, n, d) ==
    LET a == Abs(n)
        c == IF n < 0 THEN -t ELSE t
    IN  /\ c >= 0
        /\ c > 0 => ~RatioLess(a, d, 2 * c - 1, 2000)
        /\ ~RatioLess(2 * c + 1, 2000, a, d)

\* the record `rec` follows the rule for the means recent and older
FollowsChangeRule(rec, recent, older) ==
    LET r == recent[1] * older[2]
        o == older[1] * recent[2]
    IN  /\ older[1] = 0 => rec.change_percent = 0
        /\ older[1] > 0 => IsPercentInTenths(rec.change_percent, r - o, o)
        /\ rec.trend = "up" <=> (older[1] > 0 /\ 10 * r > 11 * o)
        /\ rec.trend = "down" <=> (older[1] > 0 /\ 10 * r < 9 * o)
        /\ rec.trend = "flat" <=> (older[1] = 0 \/ (10 * r <= 11 * o /\ 10 * r >= 9 * o))

\* the sum of x over the videos of the current list with the ids `ids`
SumOver(ids, x(_)) ==
    SumSeq([i \in 1..Len(ids) |-> x(VideoById(videos, ids[i]))])

\* the means the records are computed from, over the groups of the split
MeansOfSplit ==
    LET mean(ids, x(_)) == <<SumOver(ids, x), Len(ids)>>
        rate(ids, m) == GroupRate(Picked(videos, ids), m)
        of(ids) ==
            [view_velocity |-> mean(ids, LAMBDA v : v.view_velocity),
             views |-> mean(ids, LAMBDA v : v.view_count),
             engagement |-> rate(ids, "engagement_rate"),
             like_ratio |-> rate(ids, "like_ratio"),
             comments |-> mean(ids, LAMBDA v : v.comment_count)]
    IN  [recent |-> of(trend_data.recent), older |-> of(trend_data.older)]

C24_ZeroViewsFlat ==
    /\ TrendsComputed
    /\ \A i \in 1..Len(videos) : videos[i].view_count = 0
    /\ \A m \in PercentMetrics :
           trend_data[m].change_percent = 0 /\ trend_data[m].trend = "flat"

C28_LabelMatchesText ==
    TrendsComputed =>
        LET rec == trend_data.view_velocity
        IN  /\ rec.trend = "up" <=> rec.interpretation \in {"surging", "growing"}
            /\ rec.trend = "flat" <=> rec.interpretation = "stable"
            /\ rec.trend = "down" <=> rec.interpretation \in {"declining", "plunging"}

-----------------------------------------------------------------------------
\* video v carries the figures of _calculate_view_velocity for the reading c
VelocityAt(v, c) ==
    LET days == IF NoUsableDate(v) \/ c - v.published_at.day < 1
                THEN 1 ELSE c - v.published_at.day
    IN  /\ v.days_since_upload = days
        /\ 2 * Abs(v.view_velocity * days - 10 * v.view_count) <= days

\* C25: whatever published_at and the clock are, also for a video published
\* on the day of the reading or after it, days_since_upload is max(1, whole
\* days between the reading and published_at) and at least 1, and
\* view_velocity is view_count / days_since_upload, not negative and at most
\* view_count.
C25_VelocityBounded ==
    Analyzed =>
        /\ \E c \in Clocks :
               /\ c <= result.analyzed_at
               /\ \A i \in 1..Len(videos) : VelocityAt(videos[i], c)
        /\ \A i \in 1..Len(videos) :
               /\ videos[i].days_since_upload >= 1
               /\ videos[i].view_velocity >= 0
               /\ videos[i].view_velocity <= 10 * videos[i].view_count

\* a video with views published after the reading, beside one published
\* days before it
C25_PublishedLater ==
    /\ Analyzed
    /\ \E i, j \in 1..Len(videos) :
           /\ videos[i].published_at.kind = "iso"
           /\ videos[i].published_at.day > result.analyzed_at
           /\ videos[i].view_count > 0
           /\ videos[i].days_since_upload = 1
           /\ videos[i].view_velocity = 10 * videos[i].view_count
           /\ videos[j].days_since_upload > 1
           /\ videos[j].view_velocity > 0
           /\ videos[j].view_velocity < 10 * videos[j].view_count

-----------------------------------------------------------------------------
\* the improvement priorities with priority p
PrioritiesOf(p) ==
    SelectSeq(algorithm_insights.improvement_priorities,
              LAMBDA x : x.priority = p)

\* C26: the algorithm insights hold the engagement priority (priority 1)
\* exactly when the mean engagement rate is below 3.0, with target 5.0, and
\* the like-ratio priority (priority 2) exactly when the mean like ratio is
\* below 2.0, with target 3.0; the recommendation made of a priority is
\* 'critical' for priority 1 and 'high' otherwise, and the priority of every
\* recommendation is one of critical, high, medium.
C26_PrioritiesByBenchmark ==
    Analyzed =>
        /\ PrioritiesOf(1) # <<>>
               <=> MeanBelow(StatMean(metrics_stats, "engagement_rate"), 300)
        /\ \A i \in 1..Len(PrioritiesOf(1)) : PrioritiesOf(1)[i].target = 500
        /\ PrioritiesOf(2) # <<>>
               <=> MeanBelow(StatMean(metrics_stats, "like_ratio"), 200)
        /\ \A i \in 1..Len(PrioritiesOf(2)) : PrioritiesOf(2)[i].target = 300
        /\ \A i \in 1..Len(result.recommendations) :
               LET rec == result.recommendations[i]
               IN  /\ rec.priority \in {"critical", "high", "medium"}
                   /\ rec.category = "engagement" => rec.priority = "critical"
                   /\ rec.category \in {"like_ratio", "title"}
                          => rec.priority = "high"

-----------------------------------------------------------------------------
\* C27: among 3 or more videos the classification stored on a video agrees
\* with its stored z_score (two decimals) and its velocity: underperform
\* only with a stored z below -0.5, average only with a stored z from -0.5
\* to 0.5, and, for a video whose velocity is not above 1.5 x the mean
\* velocity, hit or viral only with a stored z above 0.5.
C27_TierAgreesWithStoredZ ==
    Classified =>
        \A i \in 1..Len(videos) :
            LET v == videos[i]
            IN  /\ v.classification = "underperform" => v.z_score < -50
                /\ v.classification = "average"
                       => (v.z_score >= -50 /\ v.z_score <= 50)
                /\ (v.classification \in {"hit", "viral"}
                    /\ ~AboveMeanVelocity(v.view_velocity, videos, 3))
                       => v.z_score > 50

-----------------------------------------------------------------------------
\* analyze_competitors has constructed its CompetitorAnalyzer
Handed == call.fn = "analyze_competitors" /\ main # EmptyDict

\* a full result of ChannelAnalyzer.analyze(), not the error marker
IsFullAnalysis(a) == "channel_summary" \in DOMAIN a /\ "error" \notin DOMAIN a

\* C29: every analysis the request flow hands to CompetitorAnalyzer, for the
\* main channel and for each competitor, is a full analysis: the analysis of
\* a channel whose fetched video list is empty is the error marker and is
\* neither passed on as the main analysis nor appended to the competitors.
C29_OnlyFullAnalysesCompared ==
    Handed =>
        /\ IsFullAnalysis(main)
        /\ \A i \in 1..Len(competitors) : IsFullAnalysis(competitors[i])

-----------------------------------------------------------------------------
\* page j of the call was requested within the limits, and while the loop
\* had reason to go on
PageInLimits(f, j) ==
    /\ f.pages[j].size <= 50
    /\ f.pages[j].size <= f.max_results - f.pages[j].collected
    /\ f.pages[j].collected < f.max_results
    /\ j > 1 => (f.pages[j - 1].ids > 0 /\ f.pages[j - 1].token # <<>>)

\* the last page of the call ended the loop
LastPageEnds(f) ==
    /\ f.pages # <<>>
    /\ \/ f.pages[Len(f.pages)].ids = 0
       \/ f.pages[Len(f.pages)].token = <<>>

FetchWithinLimits ==
    /\ Len(fetch.videos) <= fetch.max_results
    /\ \A j \in 1..Len(fetch.pages) : PageInLimits(fetch, j)
    /\ fetch.pc = "loop" => ~LastPageEnds(fetch)
    /\ fetch.pc = "done" =>
           /\ Len(ret.videos) <= fetch.max_results
           /\ Len(fetch.videos) >= fetch.max_results \/ LastPageEnds(fetch)

\* C30: get_channel_videos terminates and never returns more than
\* max_results videos: each page asks for at most min(50, max_results -
\* collected) items, and the loop stops as soon as max_results videos are
\* collected, a page has no video ids, or the response has no next-page
\* token.
C30_PagedWithinLimit ==
    /\ []FetchWithinLimits
    /\ <>(fetch.pc \in {"done", "raised"})

\* max_results = 51 of a longer playlist, collected by a page of 50 and a
\* page of 1
C30_SecondPageOfOne ==
    /\ fetch.pc = "done"
    /\ fetch.max_results = 51
    /\ Len(ret.videos) = 51
    /\ fetch.playlist.n > 51
    /\ Len(fetch.pages) = 2
    /\ fetch.pages[1].size = 50
    /\ fetch.pages[2].size = 1

====
